---- MODULE Spec2Model ----
(***************************************************************************)
(* Scorelang compiler core: lexer (ScoreLexer), parser (ScoreParser with   *)
(* measure partitioning), formatter, minifier, validator (ScoreValidator)  *)
(* and MusicXML transpiler, modelled from the TypeScript sources.  A       *)
(* source text is a sequence of one-character strings; positions are       *)
(* 0-based as in the code (the character at position p is src[p + 1]).     *)
(***************************************************************************)
EXTENDS Integers, Sequences, FiniteSets, TLC

\* source      the text handed to the program
\* stage       which text is being processed: "src" (the source), "fmt"
\*             (the output of formatScore), "min" (the output of minifyScore)
\* pc          the step of the pipeline within the stage
\* lx          the ScoreLexer instance working on the stage's text
\* tokIdx      index of the next token in the formatter's / minifier's loop
\* fm          the locals of formatScore (lines, currentLine, ...)
\* mn          the locals of minifyScore (result, lastTokenType)
\* result      parse result of the source                       (None before)
\* formatted   formatScore(source)                              (None before)
\* minified    minifyScore(source)                              (None before)
\* reformatted formatScore(formatScore(source))                 (None before)
\* reparsedF   parse result of formatScore(source)              (None before)
\* reparsedM   parse result of minifyScore(source)              (None before)
\* xml         lines of transpileToMusicXML(ast), with the time
\*             signature the ast was given                      (None before)
\* validation  result of validateScore(ast), with the time
\*             signature the ast was given                      (None before)
\* hook        the state of the useScore hook: source, ast, isDirty,
\*             history, historyIndex, and the source the pending
\*             debounced history push was started with (None: no push
\*             is pending)
VARIABLES source, stage, pc, lx, tokIdx, fm, mn, result, formatted, minified,
          reformatted, reparsedF, reparsedM, xml, validation, hook

vars == <<source, stage, pc, lx, tokIdx, fm, mn, result, formatted, minified,
          reformatted, reparsedF, reparsedM, xml, validation, hook>>

(***************************************************************************)
(* Character classes of the regular expressions used by the lexer.         *)
(***************************************************************************)
Digits == {"0", "1", "2", "3", "4", "5", "6", "7", "8", "9"}

LowerCase == {"a", "b", "c", "d", "e", "f", "g", "h", "i", "j", "k", "l", "m",
              "n", "o", "p", "q", "r", "s", "t", "u", "v", "w", "x", "y", "z"}

\* \w
WordChars ==
  Digits \cup LowerCase \cup {"_"}
    \cup {"A", "B", "C", "D", "E", "F", "G", "H", "I", "J", "K", "L", "M",
          "N", "O", "P", "Q", "R", "S", "T", "U", "V", "W", "X", "Y", "Z"}

BlankChars == {" ", "\t", "\r"}

SpaceChars == BlankChars \cup {"\n"}

\* The grave accent (grace-note prefix), which a TLA+ string cannot hold.
GRAVE == "GRAVE"

(***************************************************************************)
(* Sequence helpers.                                                       *)
(***************************************************************************)
\* source[p]; "NUL" stands for what peek() returns at the end of input
CharAt(src, p) == IF p >= 0 /\ p < Len(src) THEN src[p + 1] ELSE "NUL"

Slice(src, from, to) == SubSeq(src, from + 1, to)

StartsWithAt(src, p, pat) ==
  /\ p + Len(pat) <= Len(src)
  /\ \A i \in 1..Len(pat) : src[p + i] = pat[i]

RECURSIVE RunLen(_, _, _)
RunLen(src, p, class) ==
  IF CharAt(src, p) \in class THEN 1 + RunLen(src, p + 1, class) ELSE 0

RECURSIVE UntilLen(_, _, _)
UntilLen(src, p, stop) ==
  IF p >= Len(src) \/ CharAt(src, p) \in stop THEN 0
  ELSE 1 + UntilLen(src, p + 1, stop)

RECURSIVE UntilPatLen(_, _, _)
UntilPatLen(src, p, pat) ==
  IF p >= Len(src) \/ StartsWithAt(src, p, pat) THEN 0
  ELSE 1 + UntilPatLen(src, p + 1, pat)

RECURSIVE CountIn(_, _)
CountIn(s, c) ==
  IF s = <<>> THEN 0 ELSE (IF Head(s) = c THEN 1 ELSE 0) + CountIn(Tail(s), c)

RECURSIVE LastIndexOf(_, _)
LastIndexOf(s, c) ==
  IF s = <<>> THEN 0
  ELSE IF s[Len(s)] = c THEN Len(s)
  ELSE LastIndexOf(SubSeq(s, 1, Len(s) - 1), c)

Min(a, b) == IF a <= b THEN a ELSE b

Max(a, b) == IF a >= b THEN a ELSE b

(***************************************************************************)
(* Lexer patterns: each operator returns the length of the match at p,     *)
(* 0 when the pattern does not match.                                      *)
(***************************************************************************)
\* NOTE_PATTERN = /^([A-G])(#{1,2}|b{1,2})?(\d)?/
NOTE_PATTERN(src, p) ==
  IF CharAt(src, p) \notin {"A", "B", "C", "D", "E", "F", "G"} THEN 0
  ELSE LET c   == CharAt(src, p + 1)
           acc == IF c \in {"#", "b"}
                  THEN (IF CharAt(src, p + 2) = c THEN 2 ELSE 1)
                  ELSE 0
           dig == IF CharAt(src, p + 1 + acc) \in Digits THEN 1 ELSE 0
       IN  1 + acc + dig

\* DURATION_PATTERN = /^\/(32|16|8|4|2|1)(\.{1,2})?/
DURATION_PATTERN(src, p) ==
  IF CharAt(src, p) # "/" THEN 0
  ELSE LET base == IF StartsWithAt(src, p + 1, <<"3", "2">>) THEN 2
                   ELSE IF StartsWithAt(src, p + 1, <<"1", "6">>) THEN 2
                   ELSE IF CharAt(src, p + 1) \in {"8", "4", "2", "1"} THEN 1
                   ELSE 0
           dots == Min(2, RunLen(src, p + 1 + base, {"."}))
       IN  IF base = 0 THEN 0 ELSE 1 + base + dots

\* OCTAVE_MOD_PATTERN = /^(\+\+?|--?)/
OCTAVE_MOD_PATTERN(src, p) ==
  LET c == CharAt(src, p)
  IN  IF c \in {"+", "-"} THEN (IF CharAt(src, p + 1) = c THEN 2 ELSE 1) ELSE 0

\* FINGERING_PATTERN = /^@([1-5])/
FINGERING_PATTERN(src, p) ==
  IF CharAt(src, p) = "@" /\ CharAt(src, p + 1) \in {"1", "2", "3", "4", "5"} THEN 2 ELSE 0

\* STAVE_PATTERN = /^&(\w+)(\+\w+)?/
STAVE_PATTERN(src, p) ==
  IF CharAt(src, p) # "&" THEN 0
  ELSE LET n == RunLen(src, p + 1, WordChars)
           v == IF CharAt(src, p + 1 + n) = "+"
                THEN RunLen(src, p + 2 + n, WordChars) ELSE 0
       IN  IF n = 0 THEN 0 ELSE 1 + n + (IF v > 0 THEN 1 + v ELSE 0)

\* CONTEXT_KEY_PATTERN = /^(\w+):\s*/ ; the length of group 1
CONTEXT_KEY_PATTERN(src, p) ==
  LET n == RunLen(src, p, WordChars)
  IN  IF n > 0 /\ CharAt(src, p + n) = ":" THEN n ELSE 0

\* RANGE_PATTERN = /^(\d+)-(\d+)/
RANGE_PATTERN(src, p) ==
  LET n == RunLen(src, p, Digits)
      m == IF CharAt(src, p + n) = "-" THEN RunLen(src, p + n + 1, Digits) ELSE 0
  IN  IF n > 0 /\ m > 0 THEN n + 1 + m ELSE 0

\* NUMBER_PATTERN = /^(\d+)/
NUMBER_PATTERN(src, p) == RunLen(src, p, Digits)

\* STRING_PATTERN = /^"([^"]*)"/
STRING_PATTERN(src, p) ==
  IF CharAt(src, p) # "\"" THEN 0
  ELSE LET n == UntilLen(src, p + 1, {"\""})
       IN  IF CharAt(src, p + 1 + n) = "\"" THEN n + 2 ELSE 0

\* /^\[(\d+)\./
VOLTA_PATTERN(src, p) ==
  IF CharAt(src, p) # "[" THEN 0
  ELSE LET n == RunLen(src, p + 1, Digits)
       IN  IF n > 0 /\ CharAt(src, p + 1 + n) = "." THEN n + 2 ELSE 0

\* Known function names (standard library), as character sequences.
FUNCTIONS ==
  { <<"p", "p", "p">>, <<"p", "p">>, <<"p">>, <<"m", "p">>, <<"m", "f">>,
    <<"f">>, <<"f", "f">>, <<"f", "f", "f">>,
    <<"c", "r", "e", "s", "c">>, <<"d", "e", "c", "r", "e", "s", "c">>,
    <<"s", "t">>, <<"t", "n">>, <<"a", "c">>, <<"m", "c">>, <<"f", "m">>,
    <<"t", "r">>,
    <<"t", "i", "e">>, <<"s", "l", "u", "r">>, <<"p", "e", "d", "a", "l">>,
    <<"o", "c", "t">>, <<"d", "u", "r">>, <<"f", "i", "n", "g", "e", "r">>,
    <<"o", "c", "t", "_", "u", "p">>, <<"o", "c", "t", "_", "u", "p", "2">>,
    <<"o", "c", "t", "_", "d", "o", "w", "n">>,
    <<"o", "c", "t", "_", "d", "o", "w", "n", "2">>,
    <<"o", "c", "t", "_", "0">>, <<"o", "c", "t", "_", "1">>,
    <<"o", "c", "t", "_", "2">>, <<"o", "c", "t", "_", "3">>,
    <<"o", "c", "t", "_", "4">>, <<"o", "c", "t", "_", "5">>,
    <<"o", "c", "t", "_", "6">>, <<"o", "c", "t", "_", "7">>,
    <<"o", "c", "t", "_", "8">>,
    <<"d", "u", "r", "_", "1">>, <<"d", "u", "r", "_", "2">>,
    <<"d", "u", "r", "_", "4">>, <<"d", "u", "r", "_", "8">>,
    <<"d", "u", "r", "_", "1", "6">>, <<"d", "u", "r", "_", "3", "2">>,
    <<"d", "o", "t">>, <<"s", "h", "a", "r", "p">>, <<"f", "l", "a", "t">>,
    <<"f", "i", "n", "g", "e", "r", "_", "1">>,
    <<"f", "i", "n", "g", "e", "r", "_", "2">>,
    <<"f", "i", "n", "g", "e", "r", "_", "3">>,
    <<"f", "i", "n", "g", "e", "r", "_", "4">>,
    <<"f", "i", "n", "g", "e", "r", "_", "5">>,
    <<"b", "e", "a", "m">>, <<"t", "u", "p", "l", "e", "t">>,
    <<"g", "r", "a", "c", "e">>,
    <<"t", "e", "x", "t">>, <<"8", "v", "a">>, <<"8", "v", "b">> }

(***************************************************************************)
(* ScoreLexer.  The lexer state is a record; Tok builds a token.           *)
(***************************************************************************)
Tok(type, value, line, column, start, end) ==
  [type |-> type, value |-> value, line |-> line, column |-> column,
   start |-> start, end |-> end]

LexerInit ==
  [pos |-> 0, line |-> 1, column |-> 1, tokens |-> <<>>, errors |-> <<>>,
   inContext |-> FALSE, staveDepth |-> 0,
   expectAnnotationBlock |-> FALSE, inAnnotationBlock |-> FALSE]

\* advance(n) then addTokenAt(type, <the n characters>, startLine, startColumn, start, pos)
Emit(src, L, type, n) ==
  [L EXCEPT !.pos = L.pos + n, !.column = L.column + n,
            !.tokens = Append(L.tokens,
               Tok(type, Slice(src, L.pos, L.pos + n), L.line, L.column,
                   L.pos, L.pos + n))]

\* NEWLINE: advance(1), token, line++, column = 1
EmitNewline(src, L) ==
  [Emit(src, L, "NEWLINE", 1) EXCEPT !.line = L.line + 1, !.column = 1]

\* A // comment runs up to (not including) the next newline.
LineCommentLen(src, p) == 2 + UntilLen(src, p + 2, {"\n"})

\* EmitBlockComment with a COMMENT token of the opening /* only
EmitBlockComment_OpenerOnly(src, L) == Emit(src, L, "COMMENT", 2)

\* Multi-line comment: it runs to the closing */ or, unclosed, to the end
\* of input; every newline in the body does line++, column = 0.
EmitBlockComment(src, L) ==
  LET body  == UntilPatLen(src, L.pos + 2, <<"*", "/">>)
      n     == 2 + body
                 + (IF StartsWithAt(src, L.pos + 2 + body, <<"*", "/">>) THEN 2 ELSE 0)
      text  == Slice(src, L.pos, L.pos + n)
      nl    == CountIn(text, "\n")
      after == n - LastIndexOf(text, "\n")
      E     == Emit(src, L, "COMMENT", n)
  IN  IF nl = 0 THEN E
      ELSE [E EXCEPT !.line = L.line + nl, !.column = 1 + after]

\* EmitSuffix with the suffix token starting on the last character of the note
EmitSuffix_FromNote(src, L, type, n) ==
  IF n = 0 THEN L
  ELSE [Emit(src, L, type, n) EXCEPT !.tokens[Len(L.tokens) + 1].start = L.pos - 1]

\* Optional suffix token (OCTAVE_MOD, DURATION, FINGERING) after a NOTE/REST:
\* the token keeps the line of the scan and the column where the suffix starts.
EmitSuffix(src, L, type, n) == IF n = 0 THEN L ELSE Emit(src, L, type, n)

\* NOTE, then OCTAVE_MOD, DURATION, FINGERING, each on the lexer state the
\* token before it left
ScanNote(src, L) ==
  CHOOSE L4 \in
    {EmitSuffix(src, L3, "FINGERING", FINGERING_PATTERN(src, L3.pos)) : L3 \in
      {EmitSuffix(src, L2, "DURATION", DURATION_PATTERN(src, L2.pos)) : L2 \in
        {EmitSuffix(src, L1, "OCTAVE_MOD", OCTAVE_MOD_PATTERN(src, L1.pos)) : L1 \in
          {Emit(src, L, "NOTE", NOTE_PATTERN(src, L.pos))}}}} : TRUE

ScanRest(src, L) ==
  LET L1 == Emit(src, L, "REST", 1)
  IN  EmitSuffix(src, L1, "DURATION", DURATION_PATTERN(src, L1.pos))

ScanIdent(src, L) ==
  LET n == RunLen(src, L.pos, LowerCase \cup Digits \cup {"_"})
  IN  Emit(src, L, IF Slice(src, L.pos, L.pos + n) \in FUNCTIONS
                   THEN "FUNCTION" ELSE "UNKNOWN", n)

\* The { branch without this.expectAnnotationBlock = false
ScanOpenBrace_KeepsExpecting(src, L) ==
  IF L.expectAnnotationBlock
  THEN [Emit(src, L, "ANNOTATION_BLOCK_START", 1) EXCEPT !.inAnnotationBlock = TRUE]
  ELSE [Emit(src, L, "STAVE_BODY_START", 1)
          EXCEPT !.staveDepth = L.staveDepth + 1]

ScanOpenBrace(src, L) ==
  IF L.expectAnnotationBlock
  THEN [Emit(src, L, "ANNOTATION_BLOCK_START", 1)
          EXCEPT !.expectAnnotationBlock = FALSE, !.inAnnotationBlock = TRUE]
  ELSE [Emit(src, L, "STAVE_BODY_START", 1)
          EXCEPT !.staveDepth = L.staveDepth + 1]

ScanCloseBrace(src, L) ==
  IF L.inAnnotationBlock
  THEN [Emit(src, L, "ANNOTATION_BLOCK_END", 1) EXCEPT !.inAnnotationBlock = FALSE]
  ELSE IF L.staveDepth > 0
  THEN [Emit(src, L, "STAVE_BODY_END", 1)
          EXCEPT !.staveDepth = L.staveDepth - 1, !.expectAnnotationBlock = TRUE]
  ELSE Emit(src, L, "ANNOTATION_BLOCK_END", 1)

\* trim() of a context value: the value never starts with whitespace (the
\* scan skipped it), so only trailing whitespace is removed.
RECURSIVE TrimEnd(_)
TrimEnd(s) ==
  IF s # <<>> /\ s[Len(s)] \in SpaceChars THEN TrimEnd(SubSeq(s, 1, Len(s) - 1))
  ELSE s

RECURSIVE TrimStart(_)
TrimStart(s) ==
  IF s # <<>> /\ Head(s) \in SpaceChars THEN TrimStart(Tail(s)) ELSE s

Trim(s) == TrimStart(TrimEnd(s))

\* CONTEXT_KEY, the skipped colon and blanks, then the value up to the end
\* of the line: L1 is the lexer after the key, vs the start of the value
ScanContextKey(src, L) ==
  CHOOSE L3 \in UNION UNION UNION
    {{{{IF Trim(raw) # <<>>
        THEN [L1 EXCEPT !.pos = vs + Len(raw),
                        !.column = L1.column + (vs - L1.pos) + Len(raw),
                        !.tokens = Append(L1.tokens,
                           Tok("CONTEXT_VALUE", Trim(raw), L.line,
                               L1.column + (vs - L1.pos), vs, vs + Len(raw)))]
        ELSE [L1 EXCEPT !.pos = vs + Len(raw),
                        !.column = L1.column + (vs - L1.pos) + Len(raw)] :
          raw \in {Slice(src, vs, vs + UntilLen(src, vs, {"\n"}))}} :
          vs  \in {L1.pos + RunLen(src, L1.pos, {":"} \cup BlankChars)}} :
          L1  \in {Emit(src, L, "CONTEXT_KEY", k)}} :
          k   \in {CONTEXT_KEY_PATTERN(src, L.pos)}} : TRUE

scanContextContent(src, L) ==
  LET p == L.pos
      c == CharAt(src, p)
  IN  IF c = "\n" THEN EmitNewline(src, L)
      ELSE IF c \in BlankChars THEN Emit(src, L, "WHITESPACE", RunLen(src, p, BlankChars))
      ELSE IF STAVE_PATTERN(src, p) > 0 THEN Emit(src, L, "STAVE_DECL", STAVE_PATTERN(src, p))
      ELSE IF CONTEXT_KEY_PATTERN(src, p) > 0 THEN ScanContextKey(src, L)
      ELSE IF StartsWithAt(src, p, <<"/", "/">>) THEN Emit(src, L, "COMMENT", LineCommentLen(src, p))
      ELSE Emit(src, L, "UNKNOWN", 1)

scanToken(src, L) ==
  LET p == L.pos
      c == CharAt(src, p)
  IN  IF StartsWithAt(src, p, <<"-", "-", "-">>)
        THEN [Emit(src, L, "CONTEXT_DELIM", 3) EXCEPT !.inContext = ~L.inContext]
      ELSE IF L.inContext THEN scanContextContent(src, L)
      ELSE IF c = "\n" THEN EmitNewline(src, L)
      ELSE IF c \in BlankChars THEN Emit(src, L, "WHITESPACE", RunLen(src, p, BlankChars))
      ELSE IF StartsWithAt(src, p, <<"/", "/">>) THEN Emit(src, L, "COMMENT", LineCommentLen(src, p))
      ELSE IF StartsWithAt(src, p, <<"/", "*">>) THEN EmitBlockComment(src, L)
      ELSE IF STAVE_PATTERN(src, p) > 0 THEN Emit(src, L, "STAVE_DECL", STAVE_PATTERN(src, p))
      ELSE IF c = "{" THEN ScanOpenBrace(src, L)
      ELSE IF c = "}" THEN ScanCloseBrace(src, L)
      ELSE IF STRING_PATTERN(src, p) > 0 THEN Emit(src, L, "STRING", STRING_PATTERN(src, p))
      ELSE IF RANGE_PATTERN(src, p) > 0 THEN Emit(src, L, "RANGE", RANGE_PATTERN(src, p))
      ELSE IF NUMBER_PATTERN(src, p) > 0 THEN Emit(src, L, "NUMBER", NUMBER_PATTERN(src, p))
      ELSE IF c = "," THEN Emit(src, L, "COMMA", 1)
      ELSE IF StartsWithAt(src, p, <<GRAVE, GRAVE>>) THEN Emit(src, L, "GRACE", 2)
      ELSE IF c = GRAVE THEN Emit(src, L, "GRACE", 1)
      ELSE IF StartsWithAt(src, p, <<"=", "(">>) THEN Emit(src, L, "BEAM_START", 2)
      ELSE IF StartsWithAt(src, p, <<"|", ":">>) THEN Emit(src, L, "REPEAT_START", 2)
      ELSE IF StartsWithAt(src, p, <<":", "|">>) THEN Emit(src, L, "REPEAT_END", 2)
      ELSE IF VOLTA_PATTERN(src, p) > 0 THEN Emit(src, L, "VOLTA", VOLTA_PATTERN(src, p))
      ELSE IF c = "[" THEN Emit(src, L, "CHORD_START", 1)
      ELSE IF c = "]" THEN Emit(src, L, "CHORD_END", 1)
      ELSE IF c = "(" THEN Emit(src, L, "PAREN_OPEN", 1)
      ELSE IF c = ")" THEN Emit(src, L, "PAREN_CLOSE", 1)
      ELSE IF c = "~" THEN Emit(src, L, "SLUR", 1)
      ELSE IF c = "^" THEN Emit(src, L, "TIE", 1)
      ELSE IF c = "_" THEN ScanRest(src, L)
      ELSE IF DURATION_PATTERN(src, p) > 0 THEN Emit(src, L, "DURATION", DURATION_PATTERN(src, p))
      ELSE IF FINGERING_PATTERN(src, p) > 0 THEN Emit(src, L, "FINGERING", FINGERING_PATTERN(src, p))
      ELSE IF c \in LowerCase \cup {"_"} THEN ScanIdent(src, L)
      ELSE IF NOTE_PATTERN(src, p) > 0 THEN ScanNote(src, L)
      ELSE IF c = "." THEN Emit(src, L, "DURATION", 1)
      ELSE [Emit(src, L, "UNKNOWN", 1) EXCEPT !.expectAnnotationBlock = FALSE]

\* addToken('EOF', '') at the end of tokenize()
AddEOF(L) ==
  [L EXCEPT !.tokens = Append(L.tokens, Tok("EOF", <<>>, L.line, L.column, L.pos, L.pos))]


(***************************************************************************)
(* AST values.  Optional fields are sequences of length 0 (undefined) or 1. *)
(* Source locations are not part of the modelled AST.                      *)
(***************************************************************************)
None == <<>>

Some(v) == <<v>>

DEFAULT_DURATION == [base |-> "q", dots |-> 0]

\* An AnnotationNode with no field set.
EmptyAnnotation ==
  [dynamic |-> None, articulations |-> <<>>, fingering |-> None, text |-> None,
   crescendo |-> "none", decrescendo |-> "none",
   slurStart |-> FALSE, slurEnd |-> FALSE]

NoPitch == [note |-> "-", accidental |-> <<>>, octave |-> 0]

NoteNode(pitch, duration, annotation) ==
  [kind |-> "Note", pitch |-> pitch, pitches |-> <<>>, duration |-> duration,
   tied |-> FALSE, beamed |-> FALSE, grace |-> FALSE, annotation |-> annotation]

RestNode(duration) ==
  [kind |-> "Rest", pitch |-> NoPitch, pitches |-> <<>>, duration |-> duration,
   tied |-> FALSE, beamed |-> FALSE, grace |-> FALSE, annotation |-> None]

ChordNode(pitches, duration) ==
  [kind |-> "Chord", pitch |-> NoPitch, pitches |-> pitches, duration |-> duration,
   tied |-> FALSE, beamed |-> FALSE, grace |-> FALSE, annotation |-> None]

\* Dynamics set
DYNAMICS ==
  { <<"p", "p", "p">>, <<"p", "p">>, <<"p">>, <<"m", "p">>, <<"m", "f">>,
    <<"f">>, <<"f", "f">>, <<"f", "f", "f">>, <<"f", "p">>, <<"s", "f", "z">> }

\* Articulation function map
ARTICULATION_FN_MAP ==
  [fn \in { <<"s", "t">>, <<"t", "n">>, <<"a", "c">>, <<"m", "c">>,
            <<"f", "m">>, <<"t", "r">> } |->
     CASE fn = <<"s", "t">> -> "staccato"
       [] fn = <<"t", "n">> -> "tenuto"
       [] fn = <<"a", "c">> -> "accent"
       [] fn = <<"m", "c">> -> "marcato"
       [] fn = <<"f", "m">> -> "fermata"
       [] fn = <<"t", "r">> -> "trill"]

\* Beats are counted in 1/32 of a quarter note, so that every duration of
\* DURATION_BEATS with up to two dots is an integer (0.125 = 4/32).
BeatScale == 32

DURATION_BEATS ==
  [b \in {"w", "h", "q", "8", "16", "32"} |->
     CASE b = "w" -> 4 * BeatScale
       [] b = "h" -> 2 * BeatScale
       [] b = "q" -> BeatScale
       [] b = "8" -> BeatScale \div 2
       [] b = "16" -> BeatScale \div 4
       [] b = "32" -> BeatScale \div 8]

RECURSIVE DotSum(_, _)
DotSum(dotValue, dots) ==
  IF dots = 0 THEN 0 ELSE dotValue + DotSum(dotValue \div 2, dots - 1)

\* Calculate beats for a duration (including dots), scaled by BeatScale
getDurationBeats(duration) ==
  DURATION_BEATS[duration.base] + DotSum(DURATION_BEATS[duration.base] \div 2, duration.dots)

RECURSIVE parseInt(_)
parseInt(digits) ==
  IF digits = <<>> THEN 0
  ELSE 10 * parseInt(SubSeq(digits, 1, Len(digits) - 1))
       + (CHOOSE d \in 0..9 : ToString(d) = digits[Len(digits)])

(***************************************************************************)
(* ScoreParser: token cursor helpers.  P is the parser's mutable state.    *)
(***************************************************************************)
ParserInit(lexErrors) ==
  [pos |-> 0, errors |-> lexErrors, warnings |-> <<>>,
   defaultOctave |-> 4, timeSignature |-> [beats |-> 4, beatType |-> 4],
   globalKey |-> <<"C">>, declaredStaves |-> <<>>,
   currentDuration |-> DEFAULT_DURATION, thrown |-> FALSE]

current(toks, P) == toks[P.pos + 1]

check(toks, P, type) == P.pos < Len(toks) /\ toks[P.pos + 1].type = type

isAtEnd(toks, P) == P.pos >= Len(toks) \/ check(toks, P, "EOF")

advance(P) == [P EXCEPT !.pos = P.pos + 1]

RECURSIVE skipWhitespace(_, _)
skipWhitespace(toks, P) ==
  IF check(toks, P, "WHITESPACE") THEN skipWhitespace(toks, advance(P)) ELSE P

RECURSIVE skipWhitespaceAndNewlines(_, _)
skipWhitespaceAndNewlines(toks, P) ==
  IF check(toks, P, "WHITESPACE") \/ check(toks, P, "NEWLINE")
  THEN skipWhitespaceAndNewlines(toks, advance(P)) ELSE P

(***************************************************************************)
(* Notes, rests, chords.  Each operator returns the new parser state and   *)
(* the node it built.                                                      *)
(***************************************************************************)
\* value.match(/^\/([1248]|16|32)(\.{1,2})?$/), the lone dot, or the default
parseDuration(toks, P) ==
  LET v    == current(toks, P).value
      n    == RunLen(v, 1, Digits)
      d    == Slice(v, 1, 1 + n)
      dots == Len(v) - 1 - n
      duration ==
        IF /\ CharAt(v, 0) = "/"
           /\ d \in { <<"1">>, <<"2">>, <<"4">>, <<"8">>, <<"1", "6">>, <<"3", "2">> }
           /\ dots \in 0..2
           /\ \A i \in (n + 2)..Len(v) : v[i] = "."
        THEN [base |-> CASE d = <<"1">> -> "w" [] d = <<"2">> -> "h"
                         [] d = <<"4">> -> "q" [] d = <<"8">> -> "8"
                         [] d = <<"1", "6">> -> "16" [] d = <<"3", "2">> -> "32",
              dots |-> dots]
        ELSE IF v = <<".">> THEN [base |-> "q", dots |-> 1]
        ELSE DEFAULT_DURATION
  IN  [P |-> advance(P), duration |-> duration]

\* The optional duration without this.currentDuration = { ...duration }
OptionalDuration_NotSticky(toks, P) ==
  IF check(toks, P, "DURATION")
  THEN LET r == parseDuration(toks, P)
       IN  [P |-> r.P, duration |-> r.duration]
  ELSE [P |-> P, duration |-> P.currentDuration]

\* An explicit DURATION token is parsed and becomes currentDuration;
\* otherwise the element inherits currentDuration.
OptionalDuration(toks, P) ==
  IF check(toks, P, "DURATION")
  THEN LET r == parseDuration(toks, P)
       IN  [P |-> [r.P EXCEPT !.currentDuration = r.duration], duration |-> r.duration]
  ELSE [P |-> P, duration |-> P.currentDuration]

parseNotePitch(token, defaultOctave) ==
  LET v   == token.value
      n   == NOTE_PATTERN(v, 0)
      dig == n > 0 /\ v[n] \in Digits
      acc == Slice(v, 1, IF dig THEN n - 1 ELSE n)
  IN  IF n = 0
      THEN [note |-> "C", accidental |-> <<>>, octave |-> defaultOctave]
      ELSE [note |-> v[1], accidental |-> acc,
            octave |-> IF dig THEN parseInt(<<v[n]>>) ELSE defaultOctave]

ApplyOctaveMod(octave, mod) ==
  IF mod = <<"+">> THEN Min(8, octave + 1)
  ELSE IF mod = <<"+", "+">> THEN Min(8, octave + 2)
  ELSE IF mod = <<"-">> THEN Max(0, octave - 1)
  ELSE IF mod = <<"-", "-">> THEN Max(0, octave - 2)
  ELSE octave

\* parseNote: "Fingering" and the returned node
NoteFingering(toks, d, pitch) ==
  LET hasFng    == check(toks, d.P, "FINGERING")
      fingering == IF hasFng THEN parseInt(Tail(current(toks, d.P).value)) ELSE 0
  IN  [P |-> IF hasFng THEN advance(d.P) ELSE d.P,
       node |-> NoteNode(pitch, d.duration,
                  IF hasFng /\ fingering # 0
                  THEN Some([EmptyAnnotation EXCEPT !.fingering = Some(fingering)])
                  ELSE None)]

\* parseNote: "Check for octave modifier", then the duration
NoteOctave(toks, P1, pitch0) ==
  LET hasMod == check(toks, P1, "OCTAVE_MOD")
  IN  NoteFingering(toks,
        OptionalDuration(toks, IF hasMod THEN advance(P1) ELSE P1),
        IF hasMod
        THEN [pitch0 EXCEPT
                !.octave = ApplyOctaveMod(pitch0.octave, current(toks, P1).value)]
        ELSE pitch0)

parseNote(toks, P) ==
  NoteOctave(toks, advance(P), parseNotePitch(current(toks, P), P.defaultOctave))

parseRest(toks, P) ==
  LET d == OptionalDuration(toks, advance(P))
  IN  [P |-> d.P, node |-> RestNode(d.duration)]

\* The loop of parseChord: collect the pitch of every NOTE up to CHORD_END.
RECURSIVE ChordLoop(_, _, _)
ChordLoop(toks, P, pitches) ==
  IF isAtEnd(toks, P) \/ check(toks, P, "CHORD_END") THEN [P |-> P, pitches |-> pitches]
  ELSE LET P1 == skipWhitespace(toks, P)
       IN  IF check(toks, P1, "NOTE")
           THEN ChordLoop(toks, advance(P1),
                          Append(pitches, parseNotePitch(current(toks, P1), P1.defaultOctave)))
           ELSE IF ~check(toks, P1, "CHORD_END") THEN ChordLoop(toks, advance(P1), pitches)
           ELSE ChordLoop(toks, P1, pitches)

\* parseChord after its loop: the closing ] and the duration
ChordClose(toks, c) ==
  LET P1 == IF check(toks, c.P, "CHORD_END") THEN advance(c.P) ELSE c.P
      d  == OptionalDuration(toks, P1)
  IN  [P |-> d.P, node |-> ChordNode(c.pitches, d.duration)]

parseChord(toks, P) == ChordClose(toks, ChordLoop(toks, advance(P), <<>>))

(***************************************************************************)
(* Inline function calls, beam groups and the stave body.                  *)
(* A parse result is [P, null, elems]: null = TRUE stands for the null     *)
(* return; otherwise elems is the returned element or array.               *)
(***************************************************************************)
AnnotationOf(e) == IF e.annotation = None THEN EmptyAnnotation ELSE e.annotation[1]

WithAnnotation(e, a) == [e EXCEPT !.annotation = Some(a)]

Null(P) == [P |-> P, null |-> TRUE, elems |-> <<>>]

One(r) == [P |-> r.P, null |-> FALSE, elems |-> <<r.node>>]

Many(P, elems) == [P |-> P, null |-> FALSE, elems |-> elems]

\* The function names the parser compares fnToken.value with
FN ==
  [slur      |-> <<"s", "l", "u", "r">>,
   legato    |-> <<"l", "e", "g", "a", "t", "o">>,
   cresc     |-> <<"c", "r", "e", "s", "c">>,
   crescendo |-> <<"c", "r", "e", "s", "c", "e", "n", "d", "o">>,
   decresc   |-> <<"d", "e", "c", "r", "e", "s", "c">>,
   dim       |-> <<"d", "i", "m">>,
   text      |-> <<"t", "e", "x", "t">>,
   finger    |-> <<"f", "i", "n", "g", "e", "r">>,
   tie       |-> <<"t", "i", "e">>]

\* The mark a slur / crescendo / decrescendo puts on its first or last note
SetMark(a, field, first) ==
  IF field = "slur"
  THEN (IF first THEN [a EXCEPT !.slurStart = TRUE] ELSE [a EXCEPT !.slurEnd = TRUE])
  ELSE IF field = "crescendo"
  THEN [a EXCEPT !.crescendo = IF first THEN "start" ELSE "end"]
  ELSE [a EXCEPT !.decrescendo = IF first THEN "start" ELSE "end"]

\* first.annotation.<field> is set, then last.annotation.<field> (in this order)
MarkFirstLast(notes, field) ==
  LET n  == Len(notes)
      s1 == [notes EXCEPT ![1] = WithAnnotation(notes[1],
                                   SetMark(AnnotationOf(notes[1]), field, TRUE))]
  IN  [s1 EXCEPT ![n] = WithAnnotation(s1[n], SetMark(AnnotationOf(s1[n]), field, FALSE))]

\* "Apply function to notes" at the end of parseFunctionCall
ApplyInlineFunction(fnName, notes) ==
  IF fnName \in DYNAMICS
  THEN IF Len(notes) > 0
       THEN [notes EXCEPT ![1] = WithAnnotation(notes[1],
               [AnnotationOf(notes[1]) EXCEPT !.dynamic = fnName])]
       ELSE notes
  ELSE IF fnName \in DOMAIN ARTICULATION_FN_MAP
  THEN [i \in 1..Len(notes) |->
          WithAnnotation(notes[i],
            [AnnotationOf(notes[i]) EXCEPT
               !.articulations = Append(@, ARTICULATION_FN_MAP[fnName])])]
  ELSE IF Len(notes) = 0 THEN notes
  ELSE IF fnName \in {FN.slur, FN.legato}
  THEN MarkFirstLast(notes, "slur")
  ELSE IF fnName \in {FN.cresc, FN.crescendo, <<"<">>}
  THEN MarkFirstLast(notes, "crescendo")
  ELSE IF fnName \in {FN.decresc, FN.dim, <<">">>}
  THEN MarkFirstLast(notes, "decrescendo")
  ELSE notes

\* The argument loop of parseFunctionCall: notes are kept, a chord is
\* parsed and its node discarded, anything else is skipped.
RECURSIVE FunctionArgLoop(_, _, _)
FunctionArgLoop(toks, P, notes) ==
  IF isAtEnd(toks, P) \/ check(toks, P, "PAREN_CLOSE") THEN [P |-> P, notes |-> notes]
  ELSE LET P1 == skipWhitespace(toks, P)
       IN  IF check(toks, P1, "NOTE")
           THEN LET r == parseNote(toks, P1)
                IN  FunctionArgLoop(toks, r.P, Append(notes, r.node))
           ELSE IF check(toks, P1, "CHORD_START")
           THEN FunctionArgLoop(toks, parseChord(toks, P1).P, notes)
           ELSE IF ~check(toks, P1, "PAREN_CLOSE")
           THEN FunctionArgLoop(toks, advance(P1), notes)
           ELSE FunctionArgLoop(toks, P1, notes)

\* parseFunctionCall after its loop: the closing ) and "Apply function to notes"
FunctionApply(toks, fnName, a) ==
  Many(IF check(toks, a.P, "PAREN_CLOSE") THEN advance(a.P) ELSE a.P,
       ApplyInlineFunction(fnName, a.notes))

parseFunctionCall(toks, P) ==
  LET P1 == skipWhitespace(toks, advance(P))
  IN  IF ~check(toks, P1, "PAREN_OPEN") THEN Null(P1)
      ELSE FunctionApply(toks, current(toks, P).value,
                         FunctionArgLoop(toks, advance(P1), <<>>))

\* el.beamed = true on every Note of a parsed array; other kinds are dropped
BeamedNotes(elems) ==
  LET notes == SelectSeq(elems, LAMBDA e : e.kind = "Note")
  IN  [i \in 1..Len(notes) |-> [notes[i] EXCEPT !.beamed = TRUE]]

RECURSIVE parseMusicElement(_, _)
RECURSIVE BeamLoop(_, _, _)

\* The body of the beam group's loop: Notes are kept and beamed, a null
\* result skips one token
BeamElement(toks, notes, r) ==
  IF ~r.null THEN BeamLoop(toks, r.P, notes \o BeamedNotes(r.elems))
  ELSE IF ~check(toks, r.P, "PAREN_CLOSE") THEN BeamLoop(toks, advance(r.P), notes)
  ELSE BeamLoop(toks, r.P, notes)

\* while (!this.isAtEnd() && !this.check('PAREN_CLOSE')) of the beam group
BeamLoop(toks, P, notes) ==
  IF isAtEnd(toks, P) \/ check(toks, P, "PAREN_CLOSE") THEN [P |-> P, notes |-> notes]
  ELSE BeamElement(toks, notes, parseMusicElement(toks, skipWhitespace(toks, P)))

\* "Beam group" after its loop: the closing )
BeamClose(toks, b) ==
  Many(IF check(toks, b.P, "PAREN_CLOSE") THEN advance(b.P) ELSE b.P, b.notes)

\* "Grace note": the note after the backtick gets grace = true
GraceNote(toks, P1) ==
  IF check(toks, P1, "NOTE")
  THEN LET r == parseNote(toks, P1)
       IN  One([P |-> r.P, node |-> [r.node EXCEPT !.grace = TRUE]])
  ELSE Null(P1)

parseMusicElement(toks, P0) ==
  LET P == skipWhitespace(toks, P0)
  IN  IF check(toks, P, "SLUR") \/ check(toks, P, "TIE") \/ check(toks, P, "PEDAL")
        THEN Null(advance(P))
      ELSE IF check(toks, P, "GRACE") THEN GraceNote(toks, skipWhitespace(toks, advance(P)))
      ELSE IF check(toks, P, "REST") THEN One(parseRest(toks, P))
      ELSE IF check(toks, P, "CHORD_START") THEN One(parseChord(toks, P))
      ELSE IF check(toks, P, "BEAM_START") THEN BeamClose(toks, BeamLoop(toks, advance(P), <<>>))
      ELSE IF check(toks, P, "FUNCTION") THEN parseFunctionCall(toks, P)
      ELSE IF check(toks, P, "NOTE") THEN One(parseNote(toks, P))
      ELSE Null(P)

\* last.tied = true when the last element is a Note (a Chord is left alone)
TieLast(elements) ==
  IF Len(elements) > 0 /\ elements[Len(elements)].kind = "Note"
  THEN [elements EXCEPT ![Len(elements)].tied = TRUE]
  ELSE elements

RECURSIVE parseStaveBodyContent(_, _, _)

\* The element parseMusicElement returned is pushed; on null a TIE marks
\* the last element and any other token is skipped
StaveBodyElement(toks, elements, r) ==
  IF ~r.null
  THEN parseStaveBodyContent(toks, r.P, elements \o r.elems)
  ELSE IF check(toks, r.P, "TIE")
  THEN parseStaveBodyContent(toks, advance(r.P), TieLast(elements))
  ELSE IF ~check(toks, r.P, "STAVE_BODY_END") /\ ~check(toks, r.P, "EOF")
  THEN parseStaveBodyContent(toks, advance(r.P), elements)
  ELSE parseStaveBodyContent(toks, r.P, elements)

parseStaveBodyContent(toks, P, elements) ==
  IF isAtEnd(toks, P) \/ check(toks, P, "STAVE_BODY_END")
  THEN [P |-> P, elements |-> elements]
  ELSE LET P1 == skipWhitespace(toks, P)
       IN  IF check(toks, P1, "NEWLINE") \/ check(toks, P1, "COMMENT")
           THEN parseStaveBodyContent(toks, advance(P1), elements)
           ELSE StaveBodyElement(toks, elements, parseMusicElement(toks, P1))

(***************************************************************************)
(* Annotation blocks.                                                      *)
(***************************************************************************)
RECURSIVE IntToChars(_)
IntToChars(n) ==
  IF n < 10 THEN <<ToString(n)>> ELSE Append(IntToChars(n \div 10), ToString(n % 10))

\* Number(x) of a string that is not a decimal numeral
NaN == -1

NumArg(n) == [isNum |-> TRUE, num |-> n, str |-> <<>>]

StrArg(s) == [isNum |-> FALSE, num |-> 0, str |-> s]

\* String(arg) and Number(arg) of a collected argument
ArgString(a) == IF a.isNum THEN IntToChars(a.num) ELSE a.str

ArgNumber(a) ==
  IF a.isNum THEN a.num
  ELSE IF \A i \in 1..Len(a.str) : a.str[i] \in Digits THEN parseInt(a.str)
  ELSE NaN

\* The body of the loop of applyAnnotationFunction for a Note at index i
AnnotateNote(fnName, i, start, end, args, element) ==
  LET a == AnnotationOf(element)
  IN  IF fnName \in DYNAMICS
        THEN WithAnnotation(element, [a EXCEPT !.dynamic = fnName])
      ELSE IF fnName \in DOMAIN ARTICULATION_FN_MAP
        THEN WithAnnotation(element,
               [a EXCEPT !.articulations = Append(@, ARTICULATION_FN_MAP[fnName])])
      ELSE IF fnName \in {FN.cresc, FN.decresc}
        THEN IF i = start
             THEN WithAnnotation(element,
                    [a EXCEPT !.crescendo = IF fnName = FN.cresc THEN "start" ELSE "none",
                              !.decrescendo = IF fnName = FN.decresc THEN "start" ELSE "none"])
             ELSE IF i = end
             THEN WithAnnotation(element,
                    [a EXCEPT !.crescendo = IF fnName = FN.cresc THEN "end" ELSE "none",
                              !.decrescendo = IF fnName = FN.decresc THEN "end" ELSE "none"])
             ELSE WithAnnotation(element, a)
      ELSE IF fnName = FN.text /\ Len(args) > 0
        THEN WithAnnotation(element, [a EXCEPT !.text = Some(ArgString(args[1]))])
      ELSE IF fnName = FN.finger /\ Len(args) > 0
        THEN WithAnnotation(element, [a EXCEPT !.fingering = Some(ArgNumber(args[1]))])
      ELSE IF fnName = FN.tie
        THEN [WithAnnotation(element, a) EXCEPT !.tied = TRUE]
      ELSE IF fnName = FN.slur
        THEN IF i = start THEN WithAnnotation(element, [a EXCEPT !.slurStart = TRUE])
             ELSE IF i = end THEN WithAnnotation(element, [a EXCEPT !.slurEnd = TRUE])
             ELSE WithAnnotation(element, a)
      ELSE WithAnnotation(element, a)

\* for (i = start; i <= end && i < elements.length; i++): elements[i] with
\* i < 0 is undefined and reading its kind throws; i is 0-based.
applyAnnotationFunction(fnName, startIdx, endIdx, args, elements) ==
  LET start == startIdx - 1
      end   == endIdx - 1
  IN  IF start <= end /\ start < Len(elements) /\ start < 0
      THEN [thrown |-> TRUE, elements |-> elements]
      ELSE [thrown |-> FALSE,
            elements |->
              [k \in 1..Len(elements) |->
                 IF k - 1 >= start /\ k - 1 <= end /\ elements[k].kind = "Note"
                 THEN AnnotateNote(fnName, k - 1, start, end, args, elements[k])
                 ELSE elements[k]]]

\* "Parse additional arguments (comma-separated)"
RECURSIVE AnnotationArgs(_, _, _)
AnnotationArgs(toks, P, args) ==
  IF ~check(toks, P, "COMMA") THEN [P |-> P, args |-> args]
  ELSE LET P1 == skipWhitespace(toks, advance(P))
           Unquote(v) == SubSeq(v, 2, Len(v) - 1)
       IN  IF check(toks, P1, "NUMBER")
           THEN AnnotationArgs(toks, skipWhitespace(toks, advance(P1)),
                               Append(args, NumArg(parseInt(current(toks, P1).value))))
           ELSE IF check(toks, P1, "STRING")
           THEN AnnotationArgs(toks, skipWhitespace(toks, advance(P1)),
                               Append(args, StrArg(Unquote(current(toks, P1).value))))
           ELSE IF check(toks, P1, "RANGE")
           THEN AnnotationArgs(toks, skipWhitespace(toks, advance(P1)),
                               Append(args, StrArg(current(toks, P1).value)))
           ELSE AnnotationArgs(toks, skipWhitespace(toks, P1), args)

\* The first argument of an annotation call: RANGE lo-hi, NUMBER n, or (1, 1)
AnnotationRange(toks, P) ==
  IF check(toks, P, "RANGE")
  THEN LET v == current(toks, P).value
           n == RunLen(v, 0, Digits)
       IN  [P |-> advance(P), startIdx |-> parseInt(Slice(v, 0, n)),
            endIdx |-> parseInt(Slice(v, n + 1, Len(v)))]
  ELSE IF check(toks, P, "NUMBER")
  THEN [P |-> advance(P), startIdx |-> parseInt(current(toks, P).value),
        endIdx |-> parseInt(current(toks, P).value)]
  ELSE [P |-> P, startIdx |-> 1, endIdx |-> 1]

RECURSIVE parseAnnotationBlock(_, _, _)
parseAnnotationBlock(toks, P, elements) ==
  IF \/ P.thrown
     \/ isAtEnd(toks, P)
     \/ check(toks, P, "ANNOTATION_BLOCK_END")
     \/ check(toks, P, "STAVE_BODY_END")
  THEN [P |-> P, elements |-> elements]
  ELSE LET P1 == skipWhitespaceAndNewlines(toks, P)
           P2 == skipWhitespace(toks, advance(P1))
       IN  IF check(toks, P1, "FUNCTION")
           THEN IF ~check(toks, P2, "PAREN_OPEN")
                THEN parseAnnotationBlock(toks, P2, elements)
                ELSE LET fnName == current(toks, P1).value
                         rg == AnnotationRange(toks, skipWhitespace(toks, advance(P2)))
                         ar == AnnotationArgs(toks, rg.P, <<>>)
                         P3 == IF check(toks, ar.P, "PAREN_CLOSE")
                               THEN advance(ar.P) ELSE ar.P
                         ap == applyAnnotationFunction(fnName, rg.startIdx, rg.endIdx,
                                                       ar.args, elements)
                     IN  parseAnnotationBlock(toks, [P3 EXCEPT !.thrown = ap.thrown],
                                              ap.elements)
           ELSE IF check(toks, P1, "COMMENT")
           THEN parseAnnotationBlock(toks, advance(P1), elements)
           ELSE IF /\ ~check(toks, P1, "ANNOTATION_BLOCK_END")
                   /\ ~check(toks, P1, "STAVE_BODY_END")
                   /\ ~check(toks, P1, "EOF")
           THEN parseAnnotationBlock(toks, advance(P1), elements)
           ELSE [P |-> P1, elements |-> elements]

(***************************************************************************)
(* Measure partitioning.                                                   *)
(***************************************************************************)
MeasureNode(elements, attributes) ==
  [elements |-> elements, barline |-> "single", attributes |-> attributes]

\* splitIntoMeasures without "If adding this element would exceed measure,
\* start new measure": elements pile up until the boundary is reached or passed.
RECURSIVE SplitLoop_NoOverflowClose(_, _, _, _, _, _)
SplitLoop_NoOverflowClose(elements, k, beatsPerMeasure, attributes, measures, cur) ==
  IF k > Len(elements)
  THEN IF Len(cur.elements) > 0
       THEN Append(measures,
              MeasureNode(cur.elements, IF Len(measures) = 0 THEN attributes ELSE None))
       ELSE measures
  ELSE LET c2   == [elements |-> Append(cur.elements, elements[k]),
                    beats |-> cur.beats + getDurationBeats(elements[k].duration)]
           full == c2.beats >= beatsPerMeasure * BeatScale
       IN  SplitLoop_NoOverflowClose(elements, k + 1, beatsPerMeasure, attributes,
             IF full THEN Append(measures, MeasureNode(c2.elements, None)) ELSE measures,
             IF full THEN [elements |-> <<>>, beats |-> 0] ELSE c2)

\* splitIntoMeasures where the element that did not fit is lost with the
\* measure that is closed: currentMeasure = [] without the push that follows.
RECURSIVE SplitLoop_DropsOverflowing(_, _, _, _, _, _)
SplitLoop_DropsOverflowing(elements, k, beatsPerMeasure, attributes, measures, cur) ==
  IF k > Len(elements)
  THEN IF Len(cur.elements) > 0
       THEN Append(measures,
              MeasureNode(cur.elements, IF Len(measures) = 0 THEN attributes ELSE None))
       ELSE measures
  ELSE LET elementBeats == getDurationBeats(elements[k].duration)
           overflow     == /\ cur.beats + elementBeats > beatsPerMeasure * BeatScale
                           /\ Len(cur.elements) > 0
           c2   == [elements |-> Append(cur.elements, elements[k]),
                    beats |-> cur.beats + elementBeats]
           full == c2.beats >= beatsPerMeasure * BeatScale
       IN  IF overflow
           THEN SplitLoop_DropsOverflowing(elements, k + 1, beatsPerMeasure, attributes,
                  Append(measures,
                    MeasureNode(cur.elements,
                                IF Len(measures) = 0 THEN attributes ELSE None)),
                  [elements |-> <<>>, beats |-> 0])
           ELSE SplitLoop_DropsOverflowing(elements, k + 1, beatsPerMeasure, attributes,
                  IF full THEN Append(measures, MeasureNode(c2.elements, None))
                  ELSE measures,
                  IF full THEN [elements |-> <<>>, beats |-> 0] ELSE c2)

\* splitIntoMeasures with >= in "If adding this element would exceed
\* measure": a measure is closed before an element that would fill it exactly.
RECURSIVE SplitLoop_ClosesBeforeExactFit(_, _, _, _, _, _)
SplitLoop_ClosesBeforeExactFit(elements, k, beatsPerMeasure, attributes, measures, cur) ==
  IF k > Len(elements)
  THEN IF Len(cur.elements) > 0
       THEN Append(measures,
              MeasureNode(cur.elements, IF Len(measures) = 0 THEN attributes ELSE None))
       ELSE measures
  ELSE LET elementBeats == getDurationBeats(elements[k].duration)
           overflow     == /\ cur.beats + elementBeats >= beatsPerMeasure * BeatScale
                           /\ Len(cur.elements) > 0
           m1   == IF overflow
                   THEN Append(measures,
                          MeasureNode(cur.elements,
                                      IF Len(measures) = 0 THEN attributes ELSE None))
                   ELSE measures
           c1   == IF overflow THEN [elements |-> <<>>, beats |-> 0] ELSE cur
           c2   == [elements |-> Append(c1.elements, elements[k]),
                    beats |-> c1.beats + elementBeats]
           full == c2.beats >= beatsPerMeasure * BeatScale
       IN  SplitLoop_ClosesBeforeExactFit(elements, k + 1, beatsPerMeasure, attributes,
             IF full THEN Append(m1, MeasureNode(c2.elements, None)) ELSE m1,
             IF full THEN [elements |-> <<>>, beats |-> 0] ELSE c2)

\* The for loop of splitIntoMeasures; beatsPerMeasure is in beats, the
\* accumulated durations in 1/BeatScale beats.
RECURSIVE SplitLoop(_, _, _, _, _, _)
SplitLoop(elements, k, beatsPerMeasure, attributes, measures, cur) ==
  IF k > Len(elements)
  THEN IF Len(cur.elements) > 0
       THEN Append(measures,
              MeasureNode(cur.elements, IF Len(measures) = 0 THEN attributes ELSE None))
       ELSE measures
  ELSE LET element      == elements[k]
           elementBeats == getDurationBeats(element.duration)
           overflow     == /\ cur.beats + elementBeats > beatsPerMeasure * BeatScale
                           /\ Len(cur.elements) > 0
           m1   == IF overflow
                   THEN Append(measures,
                          MeasureNode(cur.elements,
                                      IF Len(measures) = 0 THEN attributes ELSE None))
                   ELSE measures
           c1   == IF overflow THEN [elements |-> <<>>, beats |-> 0] ELSE cur
           c2   == [elements |-> Append(c1.elements, element),
                    beats |-> c1.beats + elementBeats]
           full == c2.beats >= beatsPerMeasure * BeatScale
       IN  SplitLoop(elements, k + 1, beatsPerMeasure, attributes,
                     IF full THEN Append(m1, MeasureNode(c2.elements, None)) ELSE m1,
                     IF full THEN [elements |-> <<>>, beats |-> 0] ELSE c2)

splitIntoMeasures(elements, beatsPerMeasure, attributes) ==
  IF Len(elements) = 0 THEN <<>>
  ELSE SplitLoop(elements, 1, beatsPerMeasure, attributes, <<>>,
                 [elements |-> <<>>, beats |-> 0])

(***************************************************************************)
(* Context blocks.  The YAML decoder of the parser (js-yaml load) is       *)
(* modelled for block mappings: top-level `key: value` lines and           *)
(* `&name:` keys followed by indented `clef:` / `voice:` lines.            *)
(***************************************************************************)
EmptyMetadata ==
  [title |-> None, composer |-> None, key |-> None, time |-> None,
   tempo |-> None, defaultOctave |-> None, staves |-> None, other |-> <<>>]

RECURSIVE SplitLines(_, _)
SplitLines(v, p) ==
  IF p > Len(v) THEN <<>>
  ELSE LET n == UntilLen(v, p, {"\n"})
       IN  <<Slice(v, p, p + n)>> \o SplitLines(v, p + n + 1)

\* One YAML line: its indentation, key and scalar value (trimmed)
YamlLine(line) ==
  LET ind == RunLen(line, 0, {" "})
      k   == UntilLen(line, ind, {":"})
  IN  [indent |-> ind, key |-> Trim(Slice(line, ind, ind + k)),
       value |-> Trim(Slice(line, Min(Len(line), ind + k + 1), Len(line))),
       isPair |-> CharAt(line, ind + k) = ":"]

\* The entries of the decoded document, in key order
RECURSIVE YamlEntries(_, _)
YamlEntries(lines, k) ==
  IF k > Len(lines) THEN <<>>
  ELSE LET l == YamlLine(lines[k])
           nestedLen == LET RECURSIVE N(_)
                            N(j) == IF j <= Len(lines) /\ YamlLine(lines[j]).indent > 0
                                    THEN 1 + N(j + 1) ELSE 0
                        IN  N(k + 1)
           nested == [j \in 1..nestedLen |-> YamlLine(lines[k + j])]
       IN  IF ~l.isPair \/ l.indent > 0 THEN YamlEntries(lines, k + 1)
           ELSE <<[key |-> l.key, value |-> l.value, map |-> nested]>>
                \o YamlEntries(lines, k + 1 + nestedLen)

load(value) == YamlEntries(SplitLines(value, 0), 1)

\* value.match(/(\d+)\/(\d+)/): the first N/M in the string
RECURSIVE TimeMatch(_, _)
TimeMatch(v, p) ==
  IF p >= Len(v) THEN None
  ELSE LET n == RunLen(v, p, Digits)
           m == IF CharAt(v, p + n) = "/" THEN RunLen(v, p + n + 1, Digits) ELSE 0
       IN  IF n > 0 /\ m > 0
           THEN Some([beats |-> parseInt(Slice(v, p, p + n)),
                      beatType |-> parseInt(Slice(v, p + n + 1, p + n + 1 + m))])
           ELSE TimeMatch(v, p + 1)

\* parseInt(value) of a string: its leading digits, NaN when there are none
ParseIntPrefix(v) ==
  LET n == RunLen(v, 0, Digits)
  IN  IF n = 0 THEN NaN ELSE parseInt(Slice(v, 0, n))

applyMetadataValue(metadata, key, value) ==
  IF key = <<"t", "i", "t", "l", "e">> THEN [metadata EXCEPT !.title = Some(value)]
  ELSE IF key = <<"c", "o", "m", "p", "o", "s", "e", "r">>
    THEN [metadata EXCEPT !.composer = Some(value)]
  ELSE IF key = <<"k", "e", "y">> THEN [metadata EXCEPT !.key = Some(value)]
  ELSE IF key = <<"t", "i", "m", "e">>
    THEN IF TimeMatch(value, 0) # None
         THEN [metadata EXCEPT !.time = TimeMatch(value, 0)] ELSE metadata
  ELSE IF key = <<"t", "e", "m", "p", "o">>
    THEN [metadata EXCEPT !.tempo = Some(ParseIntPrefix(value))]
  ELSE IF key = <<"o", "c", "t", "a", "v", "e">>
    THEN [metadata EXCEPT !.defaultOctave = Some(ParseIntPrefix(value))]
  ELSE [metadata EXCEPT !.other = Append(@, [key |-> key, value |-> value])]

\* Map.set: a new key is appended, an existing key keeps its position
MapSet(map, name, entry) ==
  IF \E i \in 1..Len(map) : map[i].name = name
  THEN [i \in 1..Len(map) |-> IF map[i].name = name THEN entry ELSE map[i]]
  ELSE Append(map, entry)

MapHas(map, name) == \E i \in 1..Len(map) : map[i].name = name

MapGet(map, name) == map[CHOOSE i \in 1..Len(map) : map[i].name = name]

\* The mapping value of a stave key: its clef (or the scalar), default treble
StaveClef(entry) ==
  LET clefs == SelectSeq(entry.map, LAMBDA l : l.key = <<"c", "l", "e", "f">>)
  IN  IF entry.map = <<>>
      THEN (IF entry.value = <<>> THEN <<"t", "r", "e", "b", "l", "e">> ELSE entry.value)
      ELSE IF clefs = <<>> \/ clefs[Len(clefs)].value = <<>>
      THEN <<"t", "r", "e", "b", "l", "e">>
      ELSE clefs[Len(clefs)].value

\* for (const [key, value] of Object.entries(doc)) in parseContextContent
RECURSIVE ApplyYamlEntries(_, _, _, _)
ApplyYamlEntries(entries, k, P, metadata) ==
  IF k > Len(entries) THEN [P |-> P, metadata |-> metadata]
  ELSE LET e == entries[k]
       IN  IF e.key # <<>> /\ Head(e.key) = "&"
           THEN ApplyYamlEntries(entries, k + 1,
                  [P EXCEPT !.declaredStaves =
                     MapSet(@, Tail(e.key), [name |-> Tail(e.key), clef |-> StaveClef(e)])],
                  metadata)
           ELSE ApplyYamlEntries(entries, k + 1, P,
                                 applyMetadataValue(metadata, e.key, e.value))

RECURSIVE parseContextContent(_, _, _)

\* The loop goes on after a decoded YAML_CONTENT token
ContextDecoded(toks, r) == parseContextContent(toks, r.P, r.metadata)

parseContextContent(toks, P, metadata) ==
  IF isAtEnd(toks, P) \/ check(toks, P, "CONTEXT_DELIM")
  THEN [P |-> P, metadata |-> metadata]
  ELSE IF check(toks, P, "YAML_CONTENT")
  THEN ContextDecoded(toks,
         ApplyYamlEntries(load(current(toks, P).value), 1, advance(P), metadata))
  ELSE parseContextContent(toks, advance(P), metadata)

\* STAVE_DECL followed by `{`, possibly after one WHITESPACE token
StaveBodyAhead(toks, P) ==
  /\ check(toks, P, "STAVE_DECL")
  /\ P.pos + 1 < Len(toks)
  /\ \/ toks[P.pos + 2].type = "STAVE_BODY_START"
     \/ /\ toks[P.pos + 2].type = "WHITESPACE"
        /\ P.pos + 2 < Len(toks)
        /\ toks[P.pos + 3].type = "STAVE_BODY_START"

\* A context block: ---, content, optional closing ---
ContextClose(toks, r) ==
  LET P1 == skipWhitespaceAndNewlines(toks, r.P)
  IN  [P |-> IF check(toks, P1, "CONTEXT_DELIM") THEN advance(P1) ELSE P1,
       metadata |-> r.metadata]

ContextBlock(toks, P, metadata) ==
  ContextClose(toks, parseContextContent(toks, advance(P), metadata))

RECURSIVE ContextBlocksLoop(_, _, _)

\* The loop goes on after a context block
ContextBlocksNext(toks, r) == ContextBlocksLoop(toks, r.P, r.metadata)

ContextBlocksLoop(toks, P, metadata) ==
  IF isAtEnd(toks, P) THEN [P |-> P, metadata |-> metadata]
  ELSE LET P1 == skipWhitespaceAndNewlines(toks, P)
       IN  IF check(toks, P1, "CONTEXT_DELIM")
           THEN ContextBlocksNext(toks, ContextBlock(toks, P1, metadata))
           ELSE IF StaveBodyAhead(toks, P1) THEN [P |-> P1, metadata |-> metadata]
           ELSE IF ~check(toks, P1, "EOF") THEN ContextBlocksLoop(toks, advance(P1), metadata)
           ELSE [P |-> P1, metadata |-> metadata]

\* "Build staves array from declared staves"
DeclaredMetadata(r) ==
  [P |-> r.P,
   metadata |-> IF Len(r.P.declaredStaves) > 0
                THEN [r.metadata EXCEPT !.staves = Some(r.P.declaredStaves)]
                ELSE r.metadata]

parseContextBlocks(toks, P) ==
  DeclaredMetadata(
    ContextBlocksLoop(toks, skipWhitespaceAndNewlines(toks, P), EmptyMetadata))

(***************************************************************************)
(* Stave bodies.  B is the loop state of parseStaveBodies: the parser      *)
(* state, staffMeasures and staffContexts (both in insertion order).       *)
(***************************************************************************)
TREBLE == <<"t", "r", "e", "b", "l", "e">>

\* "Check for context changes" without currentCtx.key = this.globalKey and
\* currentCtx.time = { ...this.timeSignature }: the staff's context stays as
\* it was.
ContextChange_KeepsContext(ctx, P) ==
  LET keyChanged  == ctx.key # P.globalKey
      timeChanged == \/ ctx.time.beats # P.timeSignature.beats
                     \/ ctx.time.beatType # P.timeSignature.beatType
  IN  [attributes |->
         IF keyChanged \/ timeChanged
         THEN Some([key  |-> IF keyChanged THEN Some(P.globalKey) ELSE None,
                    time |-> IF timeChanged THEN Some(P.timeSignature) ELSE None])
         ELSE None,
       ctx |-> ctx]

\* "Check for context changes": the attributes of the body's first measure
\* and the staff's updated context
ContextChange(ctx, P) ==
  LET keyChanged  == ctx.key # P.globalKey
      timeChanged == \/ ctx.time.beats # P.timeSignature.beats
                     \/ ctx.time.beatType # P.timeSignature.beatType
  IN  [attributes |->
         IF keyChanged \/ timeChanged
         THEN Some([key  |-> IF keyChanged THEN Some(P.globalKey) ELSE None,
                    time |-> IF timeChanged THEN Some(P.timeSignature) ELSE None])
         ELSE None,
       ctx |-> [name |-> ctx.name,
                key  |-> P.globalKey,
                time |-> P.timeSignature]]

\* "Split elements into measures based on time signature" for one body.
\* Beside the measures of each staff, `limits` records the beatsPerMeasure
\* each of them was split with and `ends` the parser's position at the end of
\* the body it came from (history only; they are not part of the AST).
\* staffMeasures.set(staveName, [...existing, ...measures]) and
\* staffContexts.set(staveName, ...)
AddMeasures(P, staveName, sm0, sc0, ch, measures) ==
  [P |-> P,
   staffMeasures |->
     MapSet(sm0, staveName,
            [name |-> staveName,
             measures |-> MapGet(sm0, staveName).measures \o measures,
             limits |-> MapGet(sm0, staveName).limits
                          \o [i \in 1..Len(measures) |-> P.timeSignature.beats],
             ends |-> MapGet(sm0, staveName).ends
                        \o [i \in 1..Len(measures) |-> P.pos]]),
   staffContexts |-> MapSet(sc0, staveName, ch.ctx)]

AddBody(B, P, staveName, elements) ==
  IF Len(elements) = 0 THEN [B EXCEPT !.P = P]
  ELSE LET known == MapHas(B.staffMeasures, staveName)
           sm0 == IF known THEN B.staffMeasures
                  ELSE Append(B.staffMeasures,
                         [name |-> staveName, measures |-> <<>>, limits |-> <<>>,
                          ends |-> <<>>])
           sc0 == IF known THEN B.staffContexts
                  ELSE Append(B.staffContexts,
                         [name |-> staveName, key |-> <<"C">>,
                          time |-> [beats |-> 4, beatType |-> 4]])
           ch  == ContextChange(MapGet(sc0, staveName), P)
       IN  AddMeasures(P, staveName, sm0, sc0, ch,
             splitIntoMeasures(elements, P.timeSignature.beats, ch.attributes))

\* "Stave body: &name { ... }" with its optional annotation block
\* The closing } of the annotation block; the elements are split and
\* stored unless the block threw
StaveBodyAnnotated(toks, B, staveName, hasAnn, ann) ==
  LET P4 == IF hasAnn /\ ~ann.P.thrown /\ check(toks, ann.P, "ANNOTATION_BLOCK_END")
            THEN advance(ann.P) ELSE ann.P
  IN  IF P4.thrown THEN [B EXCEPT !.P = P4]
      ELSE AddBody(B, P4, staveName, ann.elements)

\* "Expect closing }" and "Parse optional annotation block"
StaveBodyClose(toks, B, staveName, body) ==
  LET P2 == IF check(toks, body.P, "STAVE_BODY_END") THEN advance(body.P) ELSE body.P
      P3 == skipWhitespace(toks, P2)
  IN  StaveBodyAnnotated(toks, B, staveName, check(toks, P3, "ANNOTATION_BLOCK_START"),
        IF check(toks, P3, "ANNOTATION_BLOCK_START")
        THEN parseAnnotationBlock(toks, advance(P3), body.elements)
        ELSE [P |-> P3, elements |-> body.elements])

StaveBody(toks, B) ==
  LET P1 == skipWhitespace(toks, advance(B.P))
  IN  IF ~check(toks, P1, "STAVE_BODY_START") THEN [B EXCEPT !.P = P1]
      ELSE StaveBodyClose(toks, B, Tail(current(toks, B.P).value),
                          parseStaveBodyContent(toks, advance(P1), <<>>))

\* "Context block mid-score"
\* "Apply context to globals" and the closing ---
MidScoreUpdate(toks, B, r) ==
  LET P1 == [r.P EXCEPT
               !.globalKey = IF r.metadata.key # None THEN r.metadata.key[1] ELSE @,
               !.timeSignature = IF r.metadata.time # None THEN r.metadata.time[1] ELSE @]
      P2 == skipWhitespaceAndNewlines(toks, P1)
  IN  [B EXCEPT !.P = IF check(toks, P2, "CONTEXT_DELIM") THEN advance(P2) ELSE P2]

MidScoreContext(toks, B) ==
  MidScoreUpdate(toks, B, parseContextContent(toks, advance(B.P), EmptyMetadata))

RECURSIVE StaveBodiesLoop(_, _)
StaveBodiesLoop(toks, B) ==
  IF B.P.thrown \/ isAtEnd(toks, B.P) THEN B
  ELSE LET P1 == skipWhitespaceAndNewlines(toks, B.P)
           B1 == [B EXCEPT !.P = P1]
       IN  IF check(toks, P1, "COMMENT") THEN StaveBodiesLoop(toks, [B EXCEPT !.P = advance(P1)])
           ELSE IF check(toks, P1, "EOF") THEN B1
           ELSE IF check(toks, P1, "CONTEXT_DELIM")
           THEN StaveBodiesLoop(toks, MidScoreContext(toks, B1))
           ELSE IF check(toks, P1, "STAVE_DECL")
           THEN StaveBodiesLoop(toks, StaveBody(toks, B1))
           ELSE StaveBodiesLoop(toks, [B EXCEPT !.P = advance(P1)])

StaffNode(name, clef, measures) == [name |-> name, clef |-> clef, measures |-> measures]

\* "Build staff nodes": declared staves, then used but undeclared staves,
\* then the default single staff
BuildStaves(declaredStaves, staffMeasures) ==
  LET declared ==
        [i \in 1..Len(declaredStaves) |->
           StaffNode(declaredStaves[i].name,
                     IF declaredStaves[i].clef = <<>> THEN TREBLE ELSE declaredStaves[i].clef,
                     IF MapHas(staffMeasures, declaredStaves[i].name)
                     THEN MapGet(staffMeasures, declaredStaves[i].name).measures
                     ELSE <<>>)]
      undeclared == SelectSeq(staffMeasures, LAMBDA m : ~MapHas(declaredStaves, m.name))
      used == [i \in 1..Len(undeclared) |->
                 StaffNode(undeclared[i].name, TREBLE, undeclared[i].measures)]
      staves == declared \o used
  IN  IF Len(staves) = 0 THEN <<StaffNode(<<"m", "a", "i", "n">>, TREBLE, <<>>)>>
      ELSE staves

\* "Build staff nodes" on the loop's final state
StavesBuilt(B) ==
  [P |-> B.P, staves |-> BuildStaves(B.P.declaredStaves, B.staffMeasures),
   staffMeasures |-> B.staffMeasures]

parseStaveBodies(toks, P) ==
  StavesBuilt(StaveBodiesLoop(toks,
    [P |-> skipWhitespaceAndNewlines(toks, P),
     staffMeasures |->
       [i \in 1..Len(P.declaredStaves) |->
          [name |-> P.declaredStaves[i].name, measures |-> <<>>, limits |-> <<>>,
           ends |-> <<>>]],
     staffContexts |->
       [i \in 1..Len(P.declaredStaves) |->
          [name |-> P.declaredStaves[i].name, key |-> P.globalKey,
           time |-> P.timeSignature]]]))

ScoreOf(metadata, b) ==
  [P |-> b.P, ast |-> [metadata |-> metadata, staves |-> b.staves],
   staffMeasures |-> b.staffMeasures]

\* "Capture time signature for measure computation", then "Parse stave bodies"
ScoreBodies(toks, c) ==
  ScoreOf(c.metadata,
    parseStaveBodies(toks,
      [c.P EXCEPT
         !.defaultOctave = IF c.metadata.defaultOctave # None
                           THEN c.metadata.defaultOctave[1] ELSE 4,
         !.timeSignature = IF c.metadata.time # None THEN c.metadata.time[1] ELSE @,
         !.globalKey = IF c.metadata.key # None THEN c.metadata.key[1] ELSE @]))

parseScore(toks, P) == ScoreBodies(toks, parseContextBlocks(toks, P))

\* validateTokens: a note-related token directly followed by a NOTE outside
\* a chord is an error at the NOTE
RECURSIVE ValidateLoop(_, _, _)
ValidateLoop(toks, i, inChord) ==
  IF i > Len(toks) - 1 THEN <<>>
  ELSE LET cur == toks[i]
           nxt == toks[i + 1]
           ch  == IF cur.type = "CHORD_START" THEN TRUE
                  ELSE IF cur.type = "CHORD_END" THEN FALSE ELSE inChord
       IN  (IF /\ ~ch
               /\ cur.type \in {"NOTE", "DURATION", "OCTAVE_MOD", "FINGERING"}
               /\ nxt.type = "NOTE"
            THEN <<[message |-> "Notes must be separated by whitespace or connectives",
                    line |-> nxt.line, column |-> nxt.column]>>
            ELSE <<>>) \o ValidateLoop(toks, i + 1, ch)

validateTokens(toks) == ValidateLoop(toks, 1, FALSE)

\* The catch clause reporting the failure at the first token instead of the
\* current one
CaughtError_AtFirstToken(toks, P) ==
  [message |-> "TypeError",
   line   |-> IF Len(toks) > 0 THEN toks[1].line ELSE 1,
   column |-> IF Len(toks) > 0 THEN toks[1].column ELSE 1]

\* The entry the catch block of parse() pushes: at the current token, or
\* at 1:1 when there is none
CaughtError(toks, P) ==
  [message |-> "TypeError",
   line   |-> IF P.pos < Len(toks) THEN current(toks, P).line ELSE 1,
   column |-> IF P.pos < Len(toks) THEN current(toks, P).column ELSE 1]

\* ScoreParser.parse on the result of tokenize.  Beside { ast, errors,
\* warnings } the record keeps, as history, whether the catch clause ran
\* (thrown), the parser's position at return (pos) and the per-measure split
\* limits (staffMeasures).
ParseResult(toks, r) ==
  IF r.P.thrown
  THEN [ast |-> None, errors |-> Append(r.P.errors, CaughtError(toks, r.P)),
        warnings |-> r.P.warnings, pos |-> r.P.pos, thrown |-> TRUE,
        staffMeasures |-> <<>>]
  ELSE [ast |-> Some(r.ast), errors |-> r.P.errors,
        warnings |-> r.P.warnings, pos |-> r.P.pos, thrown |-> FALSE,
        staffMeasures |-> r.staffMeasures]

parseTokens(lexResult) ==
  ParseResult(lexResult.tokens,
    parseScore(lexResult.tokens,
               ParserInit(lexResult.errors \o validateTokens(lexResult.tokens))))

(***************************************************************************)
(* Formatter and minifier (both driven by the token stream).               *)
(***************************************************************************)
\* DEFAULT_OPTIONS
indentSize == 2

notesPerLine == 8

spaceAroundConnectives == FALSE

RECURSIVE Repeat(_, _)
Repeat(c, n) == IF n <= 0 THEN <<>> ELSE <<c>> \o Repeat(c, n - 1)

EndsWith(s, c) == s # <<>> /\ SubSeq(s, Len(s), Len(s)) = <<c>>

FormatInit ==
  [lines |-> <<>>, currentLine |-> <<>>, indentLevel |-> 0,
   inContextBlock |-> FALSE, inStaveBody |-> FALSE, noteCount |-> 0]

indent(F) == Repeat(" ", indentSize * F.indentLevel)

flush(F) ==
  [F EXCEPT !.lines = IF Trim(F.currentLine) # <<>>
                      THEN Append(@, indent(F) \o Trim(F.currentLine)) ELSE @,
            !.currentLine = <<>>]

\* currentLine += text
Add(F, text) == [F EXCEPT !.currentLine = @ \o text]

\* if (currentLine.endsWith(' ')) drop it; currentLine += ' }'; flush()
CloseBrace(F) ==
  flush([F EXCEPT !.currentLine =
           (IF EndsWith(@, " ") THEN SubSeq(@, 1, Len(@) - 1) ELSE @) \o <<" ", "}">>])

\* addToken of formatScore
addToken(F, token) ==
  LET t == token.type
      value == token.value
  IN  IF t = "CONTEXT_DELIM"
        THEN LET F1 == flush(F)
             IN  [F1 EXCEPT !.lines = Append(@, <<"-", "-", "-">>),
                            !.inContextBlock = ~F.inContextBlock,
                            !.indentLevel = IF ~F.inContextBlock THEN 0 ELSE @]
      ELSE IF t = "YAML_CONTENT"
        THEN [F EXCEPT !.lines = Append(@, Trim(value))]
      ELSE IF t = "STAVE_DECL"
        THEN LET F1 == flush(F)
             IN  IF F.inContextBlock
                 THEN [F1 EXCEPT !.lines = Append(@, value \o <<":">>), !.indentLevel = 1]
                 ELSE [F1 EXCEPT !.currentLine = value \o <<" ">>]
      ELSE IF t = "CONTEXT_KEY" THEN [flush(F) EXCEPT !.currentLine = value]
      ELSE IF t = "CONTEXT_VALUE" THEN flush(Add(F, <<":", " ">> \o value))
      ELSE IF t = "STAVE_BODY_START"
        THEN [Add(F, <<"{", " ">>) EXCEPT !.inStaveBody = TRUE, !.noteCount = 0]
      ELSE IF t = "STAVE_BODY_END" THEN [CloseBrace(F) EXCEPT !.inStaveBody = FALSE]
      ELSE IF t = "ANNOTATION_BLOCK_START" THEN Add(F, <<" ", "{", " ">>)
      ELSE IF t = "ANNOTATION_BLOCK_END" THEN CloseBrace(F)
      ELSE IF t \in {"NOTE", "REST"}
        THEN LET wrap == F.inStaveBody /\ F.noteCount > 0 /\ F.noteCount % notesPerLine = 0
                 F1 == IF wrap
                       THEN [flush(F) EXCEPT !.currentLine = indent(F) \o <<" ", " ">>]
                       ELSE F
             IN  [Add(F1, value) EXCEPT !.noteCount = F.noteCount + 1]
      ELSE IF t \in {"DURATION", "OCTAVE_MOD", "FINGERING"} THEN Add(F, value)
      ELSE IF t \in {"SLUR", "TIE", "PEDAL"}
        THEN IF spaceAroundConnectives THEN Add(F, <<" ">> \o value \o <<" ">>)
             ELSE Add(F, value)
      ELSE IF t = "CHORD_START" THEN Add(F, <<"[">>)
      ELSE IF t = "CHORD_END" THEN Add(F, <<"]">>)
      ELSE IF t = "FUNCTION" THEN Add(F, value)
      ELSE IF t = "PAREN_OPEN" THEN Add(F, <<"(">>)
      ELSE IF t = "PAREN_CLOSE" THEN Add(F, <<")">>)
      ELSE IF t = "COMMA" THEN Add(F, <<",", " ">>)
      ELSE IF t \in {"RANGE", "NUMBER", "STRING", "GRACE"} THEN Add(F, value)
      ELSE IF t = "BEAM_START" THEN Add(F, <<"=", "(">>)
      ELSE IF t = "COMMENT"
        THEN LET F1 == flush(F)
             IN  [F1 EXCEPT !.lines = Append(@, indent(F) \o value)]
      ELSE IF t = "NEWLINE" THEN F
      ELSE IF t = "WHITESPACE"
        THEN IF /\ F.inStaveBody
                /\ F.currentLine # <<>>
                /\ \A c \in {" ", "[", "(", "~", "^"} : ~EndsWith(F.currentLine, c)
             THEN Add(F, <<" ">>) ELSE F
      ELSE IF t = "EOF" THEN flush(F)
      ELSE Add(F, value)

RECURSIVE Join(_, _)
Join(lines, sep) ==
  IF lines = <<>> THEN <<>>
  ELSE IF Len(lines) = 1 THEN lines[1]
  ELSE lines[1] \o sep \o Join(Tail(lines), sep)

\* replace(/\n{3,}/g, '\n\n'): of every run of newlines the first two stay
CollapseNewlines(s) ==
  LET at   == [i \in 1..Len(s) |-> [pos |-> i, ch |-> s[i]]]
      kept == SelectSeq(at, LAMBDA e :
                ~(e.ch = "\n" /\ e.pos > 2 /\ s[e.pos - 1] = "\n" /\ s[e.pos - 2] = "\n"))
  IN  [i \in 1..Len(kept) |-> kept[i].ch]

\* line.trimEnd() of every line, join, collapse, trim, final newline
FormatOutput(lines) ==
  Trim(CollapseNewlines(Join([i \in 1..Len(lines) |-> TrimEnd(lines[i])], <<"\n">>)))
    \o <<"\n">>


\* The loop body of minifyScore: M = [result, lastTokenType]
MinifyToken(M, token) ==
  LET t == token.type
      v == token.value
      last == M.lastTokenType
      needsSpace ==
        /\ last # "null"
        /\ last \notin {"CHORD_START", "PAREN_OPEN", "SLUR", "TIE", "FUNCTION"}
        /\ t \notin {"CHORD_END", "PAREN_CLOSE", "DURATION", "OCTAVE_MOD",
                     "FINGERING", "SLUR", "TIE", "COMMA"}
        /\ last # "CONTEXT_KEY"
        /\ t # "CONTEXT_VALUE"
      sep == IF needsSpace /\ ~EndsWith(M.result, " ") /\ ~EndsWith(M.result, "\n")
             THEN IF \/ t = "CONTEXT_DELIM" \/ last = "CONTEXT_DELIM"
                     \/ t = "STAVE_DECL" \/ last = "CONTEXT_VALUE"
                  THEN <<"\n">>
                  ELSE IF t \in {"NOTE", "REST", "CHORD_START"} THEN <<" ">>
                  ELSE <<>>
             ELSE <<>>
      colon == IF last = "CONTEXT_KEY" /\ t = "CONTEXT_VALUE" THEN <<":", " ">> ELSE <<>>
  IN  IF t \in {"WHITESPACE", "NEWLINE", "EOF"} THEN M
      ELSE [result |-> M.result \o sep \o colon \o v, lastTokenType |-> t]

MinifyInit == [result |-> <<>>, lastTokenType |-> "null"]

\* return result.trim() + '\n'
MinifyOutput(M) == Trim(M.result) \o <<"\n">>

(***************************************************************************)
(* ScoreValidator.  A diagnostic keeps its severity, the fixed part of its *)
(* message and the number the message is built from.                       *)
(***************************************************************************)
Diagnostic(severity, message, value) ==
  [severity |-> severity, message |-> message, value |-> value]

\* The sequences of ss one after the other
RECURSIVE Concat(_)
Concat(ss) == IF ss = <<>> THEN <<>> ELSE Head(ss) \o Concat(Tail(ss))

\* "Validate octave range", "Warn about unusual enharmonic spellings"
validatePitch(pitch) ==
  (IF pitch.octave < 0 \/ pitch.octave > 8
   THEN <<Diagnostic("error", "Invalid octave", pitch.octave)>> ELSE <<>>)
  \o (IF <<pitch.note>> \o pitch.accidental
          \in {<<"C", "b">>, <<"F", "b">>, <<"E", "#">>, <<"B", "#">>}
      THEN <<Diagnostic("info", "Unusual spelling", 0)>> ELSE <<>>)

\* "Validate dots (max 2)"
validateDuration(duration) ==
  IF duration.dots > 2
  THEN <<Diagnostic("warning", "Duration has dots", duration.dots)>> ELSE <<>>

\* "Validate fingering": if (note.annotation?.fingering) is false for a
\* missing fingering, for 0 and for NaN
validateNote(note) ==
  validatePitch(note.pitch) \o validateDuration(note.duration)
  \o (IF /\ note.annotation # None
         /\ note.annotation[1].fingering \notin {None, Some(0), Some(NaN)}
         /\ \/ note.annotation[1].fingering[1] < 1
            \/ note.annotation[1].fingering[1] > 5
      THEN <<Diagnostic("error", "Invalid fingering", note.annotation[1].fingering[1])>>
      ELSE <<>>)

validateChord(chord) ==
  (IF Len(chord.pitches) = 0 THEN <<Diagnostic("error", "Empty chord", 0)>> ELSE <<>>)
  \o Concat([i \in 1..Len(chord.pitches) |-> validatePitch(chord.pitches[i])])
  \o validateDuration(chord.duration)

\* "Calculate beat count" (in 1/BeatScale beats): the sum over the elements
RECURSIVE BeatCount(_)
BeatCount(elements) ==
  IF elements = <<>> THEN 0
  ELSE getDurationBeats(Head(elements).duration) + BeatCount(Tail(elements))

\* validateMeasure warning of a measure that is exactly full as well
validateMeasure_AtLeast(measure, score) ==
  (IF /\ score.metadata.time # None
      /\ BeatCount(measure.elements) >= score.metadata.time[1].beats * BeatScale
   THEN <<Diagnostic("warning", "Measure has beats", BeatCount(measure.elements))>>
   ELSE <<>>)
  \o Concat([i \in 1..Len(measure.elements) |->
               IF measure.elements[i].kind = "Note" THEN validateNote(measure.elements[i])
               ELSE IF measure.elements[i].kind = "Chord"
               THEN validateChord(measure.elements[i])
               ELSE <<>>])

\* "Check against time signature", then "Validate elements"
validateMeasure(measure, score) ==
  (IF /\ score.metadata.time # None
      /\ BeatCount(measure.elements) > score.metadata.time[1].beats * BeatScale
   THEN <<Diagnostic("warning", "Measure has beats", BeatCount(measure.elements))>>
   ELSE <<>>)
  \o Concat([i \in 1..Len(measure.elements) |->
               IF measure.elements[i].kind = "Note" THEN validateNote(measure.elements[i])
               ELSE IF measure.elements[i].kind = "Chord"
               THEN validateChord(measure.elements[i])
               ELSE <<>>])

\* "Check if stave was declared", then "Validate measures"
validateStaff(staff, score) ==
  (IF /\ score.metadata.staves # None
      /\ Len(score.metadata.staves[1]) > 0
      /\ ~MapHas(score.metadata.staves[1], staff.name)
   THEN <<Diagnostic("warning", "Stave used without declaration", 0)>> ELSE <<>>)
  \o Concat([i \in 1..Len(staff.measures) |-> validateMeasure(staff.measures[i], score)])

\* ScoreValidator.validate
validate(ast) ==
  LET diagnostics == Concat([i \in 1..Len(ast.staves) |-> validateStaff(ast.staves[i], ast)])
  IN  [valid |-> \A i \in 1..Len(diagnostics) : diagnostics[i].severity # "error",
       diagnostics |-> diagnostics]

(***************************************************************************)
(* MusicXML transpiler.  The document is the list of the pushed lines; a   *)
(* line is the tuple of its tag and of the value written into it, without  *)
(* the indentation.                                                        *)
(***************************************************************************)
\* Duration types in MusicXML
DURATION_TYPE_MAP ==
  [b \in {"w", "h", "q", "8", "16", "32"} |->
     CASE b = "w" -> "whole"
       [] b = "h" -> "half"
       [] b = "q" -> "quarter"
       [] b = "8" -> "eighth"
       [] b = "16" -> "16th"
       [] b = "32" -> "32nd"]

escapeXml(text) ==
  Concat([i \in 1..Len(text) |->
            CASE text[i] = "&" -> <<"&", "a", "m", "p", ";">>
              [] text[i] = "<" -> <<"&", "l", "t", ";">>
              [] text[i] = ">" -> <<"&", "g", "t", ";">>
              [] text[i] = "\"" -> <<"&", "q", "u", "o", "t", ";">>
              [] text[i] = "'" -> <<"&", "a", "p", "o", "s", ";">>
              [] OTHER -> <<text[i]>>])

\* Math.round(divisions * 4), the duration being in 1/BeatScale beats
getDurationDivisions(duration) ==
  (getDurationBeats(duration) * 4 + BeatScale \div 2) \div BeatScale

\* The key without the first, optionally spaced, occurrence of word (repl in
\* its place)
ReplaceWord(key, word, repl) ==
  LET at == {p \in 0..Len(key) : StartsWithAt(key, p, word)}
      p  == CHOOSE q \in at : \A r \in at : q <= r
  IN  IF at = {} THEN key
      ELSE TrimEnd(Slice(key, 0, p)) \o repl \o Slice(key, p + Len(word), Len(key))

\* "Normalize: "C major" -> "C", "D minor" -> "Dm"", then KEY_FIFTHS[...] ?? 0
getKeyFifths(key) ==
  LET maj == IF ReplaceWord(key, <<"m", "a", "j", "o", "r">>, <<>>) # key
             THEN ReplaceWord(key, <<"m", "a", "j", "o", "r">>, <<>>)
             ELSE ReplaceWord(key, <<"m", "a", "j">>, <<>>)
      min == IF ReplaceWord(maj, <<"m", "i", "n", "o", "r">>, <<"m">>) # maj
             THEN ReplaceWord(maj, <<"m", "i", "n", "o", "r">>, <<"m">>)
             ELSE ReplaceWord(maj, <<"m", "i", "n">>, <<"m">>)
      normalized == Trim(min)
      sharps == <<<<"C">>, <<"G">>, <<"D">>, <<"A">>, <<"E">>, <<"B">>, <<"F", "#">>>>
      flats  == <<<<"F">>, <<"B", "b">>, <<"E", "b">>, <<"A", "b">>, <<"D", "b">>,
                  <<"G", "b">>>>
      sharpsMinor == <<<<"A", "m">>, <<"E", "m">>, <<"B", "m">>, <<"F", "#", "m">>,
                       <<"C", "#", "m">>, <<"G", "#", "m">>, <<"D", "#", "m">>>>
      flatsMinor  == <<<<"D", "m">>, <<"G", "m">>, <<"C", "m">>, <<"F", "m">>,
                       <<"B", "b", "m">>, <<"E", "b", "m">>>>
  IN  IF \E i \in 1..7 : sharps[i] = normalized
        THEN (CHOOSE i \in 1..7 : sharps[i] = normalized) - 1
      ELSE IF \E i \in 1..7 : sharpsMinor[i] = normalized
        THEN (CHOOSE i \in 1..7 : sharpsMinor[i] = normalized) - 1
      ELSE IF \E i \in 1..6 : flats[i] = normalized
        THEN 0 - (CHOOSE i \in 1..6 : flats[i] = normalized)
      ELSE IF \E i \in 1..6 : flatsMinor[i] = normalized
        THEN 0 - (CHOOSE i \in 1..6 : flatsMinor[i] = normalized)
      ELSE 0

\* /minor|min|m$/ on the key (mode words in lower case)
getKeyMode(key) ==
  IF (\E p \in 0..Len(key) : StartsWithAt(key, p, <<"m", "i", "n">>)) \/ EndsWith(key, "m")
  THEN "minor" ELSE "major"

\* if (note.annotation?.fingering): neither missing, nor 0, nor NaN
HasFingering(a) == a.fingering \notin {None, Some(0), Some(NaN)}

\* transpileNote; beamState is "null" for no beam
transpileNote(note, isChordMember, beamState) ==
  LET a == AnnotationOf(note)
      articulations == SelectSeq(a.articulations, LAMBDA x : x # "trill")
  IN  <<<<"note">>>>
      \o (IF note.grace THEN <<<<"grace/">>>> ELSE <<>>)
      \o (IF isChordMember THEN <<<<"chord/">>>> ELSE <<>>)
      \o <<<<"pitch">>, <<"step", note.pitch.note>>>>
      \o (IF note.pitch.accidental # <<>>
          THEN <<<<"alter", (IF note.pitch.accidental[1] = "#" THEN 1 ELSE -1)
                              * Len(note.pitch.accidental)>>>>
          ELSE <<>>)
      \o <<<<"octave", note.pitch.octave>>, <<"/pitch">>,
           <<"duration", getDurationDivisions(note.duration)>>>>
      \o (IF note.tied THEN <<<<"tie", "start">>>> ELSE <<>>)
      \o <<<<"type", DURATION_TYPE_MAP[note.duration.base]>>>>
      \o [i \in 1..note.duration.dots |-> <<"dot/">>]
      \o (IF note.pitch.accidental # <<>>
          THEN <<<<"accidental",
                   IF note.pitch.accidental = <<"#">> THEN "sharp"
                   ELSE IF note.pitch.accidental = <<"#", "#">> THEN "double-sharp"
                   ELSE IF note.pitch.accidental = <<"b">> THEN "flat"
                   ELSE "flat-flat">>>>
          ELSE <<>>)
      \o (IF beamState # "null" THEN <<<<"beam", beamState>>>> ELSE <<>>)
      \o (IF \/ note.tied \/ Len(a.articulations) > 0 \/ HasFingering(a)
             \/ a.slurStart \/ a.slurEnd
             \/ a.crescendo # "none" \/ a.decrescendo # "none"
          THEN <<<<"notations">>>>
               \o (IF note.tied THEN <<<<"tied", "start">>>> ELSE <<>>)
               \o (IF a.slurStart THEN <<<<"slur", "start">>>> ELSE <<>>)
               \o (IF a.slurEnd THEN <<<<"slur", "stop">>>> ELSE <<>>)
               \o (IF Len(articulations) > 0
                   THEN <<<<"articulations">>>>
                        \o [i \in 1..Len(articulations) |->
                              <<"articulation",
                                IF articulations[i] = "marcato" THEN "strong-accent"
                                ELSE articulations[i]>>]
                        \o <<<<"/articulations">>>>
                   ELSE <<>>)
               \o (IF \E i \in 1..Len(a.articulations) : a.articulations[i] = "trill"
                   THEN <<<<"ornaments">>, <<"trill-mark/">>, <<"/ornaments">>>>
                   ELSE <<>>)
               \o (IF HasFingering(a)
                   THEN <<<<"technical">>, <<"fingering", a.fingering[1]>>,
                          <<"/technical">>>>
                   ELSE <<>>)
               \o <<<<"/notations">>>>
          ELSE <<>>)
      \o <<<<"/note">>>>

transpileRest(rest) ==
  <<<<"note">>, <<"rest/">>, <<"duration", getDurationDivisions(rest.duration)>>,
    <<"type", DURATION_TYPE_MAP[rest.duration.base]>>>>
  \o [i \in 1..rest.duration.dots |-> <<"dot/">>]
  \o <<<<"/note">>>>

\* "First note of chord", "Remaining notes with <chord/> tag"
transpileChord(chord) ==
  Concat([i \in 1..Len(chord.pitches) |->
            transpileNote(
              NoteNode(chord.pitches[i], chord.duration,
                       IF i = 1 THEN chord.annotation ELSE None),
              i > 1, "null")])

\* The <direction> lines before a note, then the element
transpileElement(element, beamState) ==
  (IF element.kind = "Note" /\ AnnotationOf(element).dynamic # None
   THEN <<<<"direction", "below">>, <<"direction-type">>, <<"dynamics">>,
          <<"dynamic", AnnotationOf(element).dynamic>>, <<"/dynamics">>,
          <<"/direction-type">>, <<"/direction">>>>
   ELSE <<>>)
  \o (IF element.kind = "Note" /\ element.annotation # None
         /\ AnnotationOf(element).crescendo # "none"
      THEN <<<<"direction", IF AnnotationOf(element).crescendo = "start"
                            THEN "below" ELSE "">>,
             <<"direction-type">>,
             <<"wedge", IF AnnotationOf(element).crescendo = "start"
                        THEN "crescendo" ELSE "stop">>,
             <<"/direction-type">>, <<"/direction">>>>
      ELSE <<>>)
  \o (IF element.kind = "Note" /\ element.annotation # None
         /\ AnnotationOf(element).decrescendo # "none"
      THEN <<<<"direction", IF AnnotationOf(element).decrescendo = "start"
                            THEN "below" ELSE "">>,
             <<"direction-type">>,
             <<"wedge", IF AnnotationOf(element).decrescendo = "start"
                        THEN "diminuendo" ELSE "stop">>,
             <<"/direction-type">>, <<"/direction">>>>
      ELSE <<>>)
  \o (IF element.kind = "Note" THEN transpileNote(element, FALSE, beamState)
      ELSE IF element.kind = "Rest" THEN transpileRest(element)
      ELSE transpileChord(element))

\* prev?.kind === 'Note' && prev.beamed, for the element at i (none outside)
IsBeamed(elements, i) ==
  i \in 1..Len(elements) /\ elements[i].kind = "Note" /\ elements[i].beamed

\* The beam state when the previous element is not looked at
BeamState_IgnorePrevious(elements, i) ==
  IF ~IsBeamed(elements, i) THEN "null"
  ELSE IF IsBeamed(elements, i + 1) THEN "begin"
  ELSE "end"

\* "Calculate beam state"
BeamState(elements, i) ==
  IF ~IsBeamed(elements, i) THEN "null"
  ELSE IF ~IsBeamed(elements, i - 1) /\ IsBeamed(elements, i + 1) THEN "begin"
  ELSE IF IsBeamed(elements, i - 1) /\ IsBeamed(elements, i + 1) THEN "continue"
  ELSE IF IsBeamed(elements, i - 1) /\ ~IsBeamed(elements, i + 1) THEN "end"
  ELSE "null"

transpileMeasure(measure) ==
  Concat([i \in 1..Len(measure.elements) |->
            transpileElement(measure.elements[i], BeamState(measure.elements, i))])

\* The <attributes> of the measure at index i (0-based); measure is None
\* when the staff has no measure there
MeasureAttributes(staff, metadata, i, measure) ==
  LET attributes == IF measure # None THEN measure[1].attributes ELSE None
      key  == IF attributes # None /\ attributes[1].key # None THEN attributes[1].key
              ELSE IF i = 0 THEN (IF metadata.key # None THEN metadata.key ELSE Some(<<"C">>))
              ELSE None
      time == IF attributes # None /\ attributes[1].time # None THEN attributes[1].time
              ELSE IF i = 0 THEN metadata.time ELSE None
  IN  IF attributes # None \/ i = 0
      THEN <<<<"attributes">>>>
           \o (IF i = 0 THEN <<<<"divisions", 4>>>> ELSE <<>>)
           \o (IF key # None /\ key[1] # <<>>
               THEN <<<<"key">>, <<"fifths", getKeyFifths(key[1])>>,
                      <<"mode", getKeyMode(key[1])>>, <<"/key">>>>
               ELSE <<>>)
           \o (IF time # None \/ i = 0
               THEN <<<<"time">>,
                      <<"beats", IF time # None THEN time[1].beats ELSE 4>>,
                      <<"beat-type", IF time # None THEN time[1].beatType ELSE 4>>,
                      <<"/time">>>>
               ELSE <<>>)
           \o (IF i = 0 /\ staff.clef # <<>>
               THEN <<<<"clef">>,
                      <<"sign", IF staff.clef = <<"b", "a", "s", "s">> THEN "F"
                                ELSE IF staff.clef \in {<<"a", "l", "t", "o">>,
                                                        <<"t", "e", "n", "o", "r">>}
                                THEN "C" ELSE "G">>,
                      <<"line", IF staff.clef \in {<<"b", "a", "s", "s">>,
                                                   <<"t", "e", "n", "o", "r">>} THEN 4
                                ELSE IF staff.clef = <<"a", "l", "t", "o">> THEN 3
                                ELSE 2>>,
                      <<"/clef">>>>
               ELSE <<>>)
           \o <<<<"/attributes">>>>
      ELSE <<>>

\* transpileStaff that emits the measures the staff has and no padding
transpileStaff_NoPadding(staff, score, targetMeasureCount) ==
  Concat([n \in 1..Len(staff.measures) |->
            <<<<"measure", n>>>>
            \o MeasureAttributes(staff, score.metadata, n - 1, Some(staff.measures[n]))
            \o transpileMeasure(staff.measures[n])
            \o <<<<"/measure">>>>])

\* transpileStaff: "Attributes (Key, Time, Clef)", then "Notes or padding"
transpileStaff(staff, score, targetMeasureCount) ==
  Concat([n \in 1..targetMeasureCount |->
            <<<<"measure", n>>>>
            \o MeasureAttributes(staff, score.metadata, n - 1,
                 IF n <= Len(staff.measures) THEN Some(staff.measures[n]) ELSE None)
            \o (IF n <= Len(staff.measures) THEN transpileMeasure(staff.measures[n])
                ELSE <<<<"note">>, <<"rest/">>,
                       <<"duration", (IF score.metadata.time # None
                                      THEN score.metadata.time[1].beats ELSE 4) * 4>>,
                       <<"type", "whole">>, <<"/note">>>>)
            \o <<<<"/measure">>>>])

\* "Find max measures to align all parts"
MaxMeasures(staves) ==
  CHOOSE m \in {1} \cup {Len(staves[i].measures) : i \in 1..Len(staves)} :
    \A i \in 1..Len(staves) : Len(staves[i].measures) <= m /\ 1 <= m

\* transpileToMusicXML with the default options
transpileToMusicXML(ast) ==
  <<<<"?xml">>, <<"!DOCTYPE">>, <<"score-partwise">>>>
  \o (IF ast.metadata.title \notin {None, Some(<<>>)}
      THEN <<<<"work">>, <<"work-title", escapeXml(ast.metadata.title[1])>>, <<"/work">>>>
      ELSE <<>>)
  \o (IF ast.metadata.composer \notin {None, Some(<<>>)}
      THEN <<<<"identification">>, <<"creator", escapeXml(ast.metadata.composer[1])>>,
             <<"/identification">>>>
      ELSE <<>>)
  \o <<<<"part-list">>>>
  \o (IF Len(ast.staves) > 1
      THEN <<<<"part-group", "start">>, <<"group-symbol", "bracket">>,
             <<"/part-group">>>>
      ELSE <<>>)
  \o Concat([idx \in 1..Len(ast.staves) |->
               <<<<"score-part", idx>>, <<"part-name", escapeXml(ast.staves[idx].name)>>,
                 <<"/score-part">>>>])
  \o (IF Len(ast.staves) > 1 THEN <<<<"part-group", "stop">>>> ELSE <<>>)
  \o <<<<"/part-list">>>>
  \o Concat([idx \in 1..Len(ast.staves) |->
               <<<<"part", idx>>>>
               \o transpileStaff(ast.staves[idx], ast, MaxMeasures(ast.staves))
               \o <<<<"/part">>>>])
  \o <<<<"/score-partwise">>>>

(***************************************************************************)
(* The sources the program is run on.                                      *)
(***************************************************************************)
\* Longest element list of a generated stave body
MaxElems == 3

\* Largest number of stave bodies in a generated multi-staff source
MaxBodies == 2

SeqsUpTo(S, n) == UNION {[1..k -> S] : k \in 0..n}

\* C, D/2, E/1., C9, [C E], []
ElemAtoms ==
  {<<"C">>,
   <<"D", "/", "2">>,
   <<"E", "/", "1", ".">>,
   <<"C", "9">>,
   <<"[", "C", " ", "E", "]">>,
   <<"[", "]">>}

\* &a { e1 e2 ... }
BodySource(elems) ==
  <<"&", "a", " ", "{", " ">> \o Join(elems, <<" ">>) \o <<" ", "}">>

\* &a { C }   &b { D/2 }   &b { }
StaffBodies ==
  {<<"&", "a", " ", "{", " ", "C", " ", "}">>,
   <<"&", "b", " ", "{", " ", "D", "/", "2", " ", "}">>,
   <<"&", "b", " ", "{", " ", "}">>}

\* no context block, or one that declares staff b
Headers ==
  {<<>>,
   <<"-", "-", "-", "\n", "&", "b", ":", "\n", " ", " ", "c", "l", "e", "f",
          ":", " ", "b", "a", "s", "s", "\n", "-", "-", "-", "\n">>}

\* The first k of C D E F G A B C ...
NoteNames(k) ==
  [i \in 1..k |-> <<(<<"C", "D", "E", "F", "G", "A", "B">>)[((i - 1) % 7) + 1]>>]

\* The first k of _ [C E] D _ [C E] D ...
MixedNames(k) ==
  [i \in 1..k |-> IF i % 3 = 1 THEN <<"_">>
                  ELSE IF i % 3 = 2 THEN <<"[", "C", " ", "E", "]">>
                  ELSE <<"D">>]

\* &a { d(C D ...) }: an inline call of d around k notes
InlineCall(d, k) == BodySource(<<d \o <<"(">> \o Join(NoteNames(k), <<" ">>) \o <<")">>>>)

\* lo-hi, or lo alone when hi = 0
RangeText(lo, hi) ==
  IF hi = 0 THEN IntToChars(lo) ELSE IntToChars(lo) \o <<"-">> \o IntToChars(hi)

\* The functions called in the generated annotation blocks
AnnotationFns ==
  {<<"p">>, <<"f", "p">>, <<"s", "t">>, FN.tie, FN.finger, FN.cresc, FN.decresc, FN.slur}

\* &a { body } { fn(range) }, finger with the finger number 3
AnnotationCall(fn, lo, hi, body) ==
  BodySource(body) \o <<" ", "{", " ">> \o fn \o <<"(">> \o RangeText(lo, hi)
    \o (IF fn = FN.finger THEN <<",", " ", "3">> ELSE <<>>) \o <<")", " ", "}">>

Fixtures ==
  {
   \* tie connective, tight
   <<"&", "a", " ", "{", " ", "C", "^", "C", " ", "}">>,
   \* two tie connectives in a row
   <<"&", "a", " ", "{", " ", "C", "^", "^", "D", " ", "}">>,
   \* unclosed block comment
   <<"&", "a", " ", "{", " ", "C", " ", "/", "*", " ", "x", "\n", "D">>,
   \* a beam group of three
   <<"&", "a", " ", "{", " ", "=", "(", "C", "/", "8", " ", "D", " ", "E",
          ")", " ", "F", " ", "}">>,
   \* a beam group cut by the end of the measure
   <<"&", "a", " ", "{", " ", "C", "/", "2", ".", " ", "D", "/", "8", " ",
          "=", "(", "E", " ", "F", " ", "G", ")", " ", "}">>,
   \* a rest and a chord inside a beam group
   <<"&", "a", " ", "{", " ", "=", "(", "C", "/", "8", " ", "_", " ", "D",
          " ", "[", "C", " ", "E", "]", " ", "E", ")", " ", "}">>,
   \* two beam groups with a rest between them
   <<"&", "a", " ", "{", " ", "=", "(", "C", "/", "8", " ", "D", ")", " ",
          "_", " ", "=", "(", "E", " ", "F", ")", " ", "}">>,
   \* two beam groups one after the other
   <<"&", "a", " ", "{", " ", "=", "(", "C", "/", "8", " ", "D", ")", " ",
          "=", "(", "E", " ", "F", ")", " ", "}">>,
   \* fingering 0 from an annotation block
   <<"&", "a", " ", "{", " ", "C", " ", "}", " ", "{", " ", "f", "i", "n",
          "g", "e", "r", "(", "1", ",", " ", "0", ")", " ", "}">>,
   \* fingering 9 from an annotation block
   <<"&", "a", " ", "{", " ", "C", " ", "}", " ", "{", " ", "f", "i", "n",
          "g", "e", "r", "(", "1", ",", " ", "9", ")", " ", "}">>,
   \* unusual spellings
   <<"&", "a", " ", "{", " ", "C", "b", " ", "E", "#", " ", "}">>,
   \* a context block, a note with every suffix, an unknown character and an
   \* unclosed block comment
   <<"-", "-", "-", "\n", "t", "i", "t", "l", "e", ":", " ", "T", "\n", "-",
          "-", "-", "\n", "&", "a", " ", "{", " ", "C", "+", "/", "8", "@", "1",
          " ", "$", " ", "D", " ", "/", "*", " ", "x">>,
   \* two staves of different lengths, an unknown character between them
   <<"&", "r", " ", "{", " ", "C", " ", "D", " ", "E", " ", "F", " ", "G",
          " ", "}", " ", "$", " ", "&", "l", " ", "{", " ", "C", " ", "}">>,
   \* two staves of different lengths, an empty annotation block between them
   <<"&", "r", " ", "{", " ", "C", " ", "}", " ", "{", " ", "}", "\n", "&",
          "l", " ", "{", " ", "C", " ", "D", " ", "E", " ", "F", " ", "G",
          " ", "}">>,
   \* a context block with a title
   <<"-", "-", "-", "\n", "t", "i", "t", "l", "e", ":", " ", "T", "\n", "-",
          "-", "-", "\n", "&", "a", " ", "{", " ", "C", " ", "}">>,
   \* title, key, time, tempo and octave
   <<"-", "-", "-", "\n", "t", "i", "t", "l", "e", ":", " ", "T", "\n", "k",
          "e", "y", ":", " ", "G", "\n", "t", "i", "m", "e", ":", " ", "3",
          "/", "4", "\n", "t", "e", "m", "p", "o", ":", " ", "9", "0", "\n",
          "o", "c", "t", "a", "v", "e", ":", " ", "5", "\n", "-", "-", "-",
          "\n", "&", "a", " ", "{", " ", "C", " ", "D", " ", "E", " ", "F",
          " ", "}">>,
   \* two declared staves, one with a body
   <<"-", "-", "-", "\n", "&", "r", ":", "\n", " ", " ", "c", "l", "e", "f",
          ":", " ", "t", "r", "e", "b", "l", "e", "\n", "&", "l", ":", "\n",
          " ", " ", "c", "l", "e", "f", ":", " ", "b", "a", "s", "s", "\n",
          "-", "-", "-", "\n", "&", "r", " ", "{", " ", "C", " ", "}">>,
   \* two staves one after the other
   <<"&", "r", " ", "{", " ", "C", "4", " ", "}", "\n", "&", "l", " ", "{",
          " ", "C", "2", " ", "}">>,
   \* annotation block, one position
   <<"&", "a", " ", "{", " ", "C", " ", "D", " ", "}", " ", "{", " ", "s",
          "t", "(", "1", ")", " ", "}">>,
   \* annotation block, position 0
   <<"&", "a", " ", "{", " ", "C", " ", "D", " ", "}", " ", "{", " ", "s",
          "t", "(", "0", ")", " ", "}">>,
   \* annotation block, range from 0
   <<"&", "a", " ", "{", " ", "C", " ", "D", " ", "}", " ", "{", " ", "s",
          "t", "(", "0", "-", "1", ")", " ", "}">>,
   \* annotation block, position beyond the body
   <<"&", "a", " ", "{", " ", "C", " ", "D", " ", "}", " ", "{", " ", "s",
          "t", "(", "3", ")", " ", "}">>,
   \* annotation block, crescendo range
   <<"&", "a", " ", "{", " ", "C", " ", "D", " ", "}", " ", "{", " ", "c",
          "r", "e", "s", "c", "(", "1", "-", "2", ")", " ", "}">>,
   \* annotation block, text
   <<"&", "a", " ", "{", " ", "C", " ", "D", " ", "}", " ", "{", " ", "t",
          "e", "x", "t", "(", "1", ",", " ", "\"", "x", "\"", ")", " ", "}">>,
   \* annotation block on the next line
   <<"&", "a", " ", "{", " ", "C", " ", "D", " ", "}", "\n", "{", " ", "s",
          "t", "(", "0", ")", " ", "}">>,
   \* line comment inside a body
   <<"&", "a", " ", "{", " ", "C", " ", "/", "/", " ", "x", "\n", " ", "D",
          " ", "}">>,
   \* block comment inside a body
   <<"&", "a", " ", "{", " ", "C", " ", "/", "*", " ", "x", " ", "*", "/",
          " ", "D", " ", "}">>,
   \* line comment before a body
   <<"/", "/", " ", "x", "\n", "&", "a", " ", "{", " ", "C", " ", "}">>,
   \* slur connective, spaced
   <<"&", "a", " ", "{", " ", "C", " ", "~", " ", "D", " ", "}">>,
   \* slur connective, tight
   <<"&", "a", " ", "{", " ", "C", "~", "D", " ", "}">>,
   \* tie connective, spaced
   <<"&", "a", " ", "{", " ", "C", " ", "^", " ", "D", " ", "}">>,
   \* a chord among the notes of an inline call
   <<"&", "a", " ", "{", " ", "C", " ", "p", "(", "D", " ", "[", "C", " ", "E", "]",
          " ", "F", ")", " ", "G", " ", "}">>,
   \* an unknown character between a stave body and the next brace
   <<"&", "a", " ", "{", " ", "C", " ", "}", " ", "$", " ", "{", " ", "p", "(", "1", ")",
          " ", "}">>,
   \* braces inside an annotation block
   <<"&", "a", " ", "{", " ", "C", " ", "}", " ", "{", " ", "{", " ", "}", " ", "}">>,
   \* durations shorter than a sixteenth or dotted below an eighth
   <<"&", "a", " ", "{", " ", "C", "/", "3", "2", " ", "D", "/", "1", "6", ".", " ",
          "E", "/", "8", ".", ".", " ", "}">>,
   \* a run of tight slur connectives
   <<"&", "a", " ", "{", " ", "C", "~", "D", "~", "E", "~", "F", " ", "G", " ", "}">>,
   \* nine notes
   <<"&", "a", " ", "{", " ", "C", " ", "D", " ", "E", " ", "F", " ", "G",
          " ", "A", " ", "B", " ", "C", " ", "D", " ", "}">>,
   \* octave modifiers at the bounds
   <<"&", "a", " ", "{", " ", "B", "8", "+", " ", "D", "0", "-", "-", " ",
          "C", "8", "+", "+", " ", "}">>,
   \* rests
   <<"&", "a", " ", "{", " ", "_", " ", "_", "/", "8", " ", "}">>,
   \* inline dynamic and beam group
   <<"&", "a", " ", "{", " ", "p", "(", "C", " ", "D", ")", " ", "=", "(",
          "C", "/", "8", " ", "D", ")", " ", "}">>,
   \* mid-score context block
   <<"&", "a", " ", "{", " ", "C", " ", "}", "\n", "-", "-", "-", "\n", "t",
          "i", "m", "e", ":", " ", "3", "/", "4", "\n", "-", "-", "-", "\n",
          "&", "a", " ", "{", " ", "D", " ", "E", " ", "F", " ", "G", " ", "}">>,
   \* empty source
   <<>>,
   \* notes outside any body
   <<"C", " ", "D">>,
   \* a character the lexer does not know
   <<"&", "a", " ", "{", " ", "C", " ", "$", " ", "}">>,
   \* unclosed body
   <<"&", "a", " ", "{", " ", "C">>}

\* One staff with up to MaxElems elements; up to MaxBodies stave bodies
\* after either header; every dynamic called inline around up to MaxElems
\* notes; a body of MaxElems elements with an annotation block that calls a
\* function on a position or a range; the fixtures
Sources ==
  {BodySource(es) : es \in SeqsUpTo(ElemAtoms, MaxElems)}
    \cup {h \o Join(bs, <<"\n">>) : h \in Headers, bs \in SeqsUpTo(StaffBodies, MaxBodies)}
    \cup {InlineCall(d, k) : d \in DYNAMICS, k \in 1..MaxElems}
    \cup {AnnotationCall(fn, lo, hi, body) :
            fn \in AnnotationFns,
            lo \in 1..MaxElems,
            hi \in {0} \cup 1..MaxElems,
            body \in {NoteNames(MaxElems), MixedNames(MaxElems)}}
    \cup Fixtures

(***************************************************************************)
(* The program as a state machine.  A source is tokenized one scanToken    *)
(* call at a time and parsed; formatScore and minifyScore then walk its    *)
(* tokens one at a time.  The formatter's and the minifier's outputs are   *)
(* run through the same lexer and parser, and the formatter's output       *)
(* through the formatter again.                                            *)
(***************************************************************************)
\* The text the lexer of the current stage works on
Text ==
  IF stage = "src" THEN source
  ELSE IF stage = "fmt" THEN formatted[1]
  ELSE minified[1]

\* The ASTs handed to the transpiler and the validator: the source's AST as
\* parsed (None), or with 3/4 or 6/8 as its metadata.time
TimeInputs ==
  {None, Some([beats |-> 3, beatType |-> 4]), Some([beats |-> 6, beatType |-> 8])}

ScoreInput(t) ==
  IF t = None THEN result[1].ast[1] ELSE [result[1].ast[1] EXCEPT !.metadata.time = t]

(***************************************************************************)
(* The useScore hook: the editor's source with its AST and an undo         *)
(* history.  The history push of updateSource is debounced: it runs as a   *)
(* timer callback, some time after the call that started it.               *)
(***************************************************************************)
MAX_HISTORY == 50

DEFAULT_SCORE_TEMPLATE ==
  <<"-", "-", "-", "\n", "t", "i", "t", "l", "e", ":", " ", "U", "n", "t",
    "i", "t", "l", "e", "d", "\n", "k", "e", "y", ":", " ", "C", " ", "m",
    "a", "j", "o", "r", "\n", "t", "i", "m", "e", ":", " ", "4", "/", "4",
    "\n", "t", "e", "m", "p", "o", ":", " ", "1", "2", "0", "\n", "&", "r",
    "i", "g", "h", "t", ":", "\n", " ", " ", "c", "l", "e", "f", ":", " ",
    "t", "r", "e", "b", "l", "e", "\n", "-", "-", "-", "\n", "&", "r", "i",
    "g", "h", "t", " ", "{", " ", "C", " ", "D", " ", "E", " ", "F", " ",
    "G", " ", "A", " ", "B", " ", "C", "+", " ", "}", "\n">>

\* tokenize(source): the loop of ScoreLexer.tokenize run to its end
RECURSIVE TokenizeLoop(_, _)
TokenizeLoop(src, L) ==
  IF L.pos < Len(src) THEN TokenizeLoop(src, scanToken(src, L)) ELSE AddEOF(L)

tokenize(src) == TokenizeLoop(src, LexerInit)

\* The texts the editor hands to the hook: the template and two edits
HookSources ==
  {DEFAULT_SCORE_TEMPLATE,
   <<"&", "a", " ", "{", " ", "C", " ", "}">>,
   <<"&", "a", " ", "{", " ", "C", " ", "D", " ", "}">>}

\* parseAndCache(source), for each of the texts
ParsedSources == [s \in HookSources |-> parseTokens(tokenize(s)).ast]

parseAndCache(s) == ParsedSources[s]

\* Most entries the history of a run of the model grows to
MaxHistoryLen == 3

\* The initial state of useScore
useScore ==
  [source |-> DEFAULT_SCORE_TEMPLATE,
   ast |-> parseAndCache(DEFAULT_SCORE_TEMPLATE),
   isDirty |-> FALSE,
   history |-> <<DEFAULT_SCORE_TEMPLATE>>,
   historyIndex |-> 0,
   pending |-> None]

Init ==
  /\ source \in Sources
  /\ stage = "src"
  /\ pc = "new"
  /\ lx = LexerInit
  /\ tokIdx = 1
  /\ fm = FormatInit
  /\ mn = MinifyInit
  /\ result = None
  /\ formatted = None
  /\ minified = None
  /\ reformatted = None
  /\ reparsedF = None
  /\ reparsedM = None
  /\ xml = None
  /\ validation = None
  /\ hook = useScore

\* new ScoreLexer(source)
NewLexer ==
  /\ pc = "new"
  /\ lx' = LexerInit
  /\ pc' = "lex"
  /\ UNCHANGED <<source, stage, tokIdx, fm, mn, result, formatted, minified,
                 reformatted, reparsedF, reparsedM, xml, validation,
                 hook>>

\* one iteration of the while loop of ScoreLexer.tokenize
ScanStep ==
  /\ pc = "lex"
  /\ lx.pos < Len(Text)
  /\ lx' = scanToken(Text, lx)
  /\ UNCHANGED <<source, stage, pc, tokIdx, fm, mn, result, formatted, minified,
                 reformatted, reparsedF, reparsedM, xml, validation,
                 hook>>

\* the end of ScoreLexer.tokenize: the EOF token
EndTokenize ==
  /\ pc = "lex"
  /\ lx.pos >= Len(Text)
  /\ lx' = AddEOF(lx)
  /\ pc' = "parse"
  /\ UNCHANGED <<source, stage, tokIdx, fm, mn, result, formatted, minified,
                 reformatted, reparsedF, reparsedM, xml, validation,
                 hook>>

\* ScoreParser.parse on the tokens of the stage's text
Parse ==
  /\ pc = "parse"
  /\ \E r \in {parseTokens(lx)} :
       /\ result' = IF stage = "src" THEN Some(r) ELSE result
       /\ reparsedF' = IF stage = "fmt" THEN Some(r) ELSE reparsedF
       /\ reparsedM' = IF stage = "min" THEN Some(r) ELSE reparsedM
  /\ pc' = IF stage # "min" THEN "format"
           ELSE IF result[1].ast # None THEN "transpile" ELSE "done"
  /\ UNCHANGED <<source, stage, lx, tokIdx, fm, mn, formatted, minified, reformatted, xml, validation,
                 hook>>

\* formatScore: the locals before the loop over the tokens
FormatBegin ==
  /\ pc = "format"
  /\ fm' = FormatInit
  /\ tokIdx' = 1
  /\ pc' = "formatting"
  /\ UNCHANGED <<source, stage, lx, mn, result, formatted, minified,
                 reformatted, reparsedF, reparsedM, xml, validation,
                 hook>>

\* formatScore: addToken on the next token
FormatStep ==
  /\ pc = "formatting"
  /\ tokIdx <= Len(lx.tokens)
  /\ fm' = addToken(fm, lx.tokens[tokIdx])
  /\ tokIdx' = tokIdx + 1
  /\ UNCHANGED <<source, stage, pc, lx, mn, result, formatted, minified,
                 reformatted, reparsedF, reparsedM, xml, validation,
                 hook>>

\* formatScore: the returned text; the source's goes on to the minifier,
\* the formatter's own output is lexed next
FormatEnd ==
  /\ pc = "formatting"
  /\ tokIdx > Len(lx.tokens)
  /\ formatted' = IF stage = "src" THEN Some(FormatOutput(fm.lines)) ELSE formatted
  /\ reformatted' = IF stage = "fmt" THEN Some(FormatOutput(fm.lines)) ELSE reformatted
  /\ pc' = IF stage = "src" THEN "minify" ELSE "new"
  /\ stage' = IF stage = "src" THEN "src" ELSE "min"
  /\ UNCHANGED <<source, lx, tokIdx, fm, mn, result, minified, reparsedF, reparsedM, xml, validation,
                 hook>>

\* minifyScore: the locals before the loop over the tokens
MinifyBegin ==
  /\ pc = "minify"
  /\ mn' = MinifyInit
  /\ tokIdx' = 1
  /\ pc' = "minifying"
  /\ UNCHANGED <<source, stage, lx, fm, result, formatted, minified,
                 reformatted, reparsedF, reparsedM, xml, validation,
                 hook>>

\* minifyScore: the loop body on the next token
MinifyStep ==
  /\ pc = "minifying"
  /\ tokIdx <= Len(lx.tokens)
  /\ mn' = MinifyToken(mn, lx.tokens[tokIdx])
  /\ tokIdx' = tokIdx + 1
  /\ UNCHANGED <<source, stage, pc, lx, fm, result, formatted, minified,
                 reformatted, reparsedF, reparsedM, xml, validation,
                 hook>>

\* minifyScore: the returned text; the formatter's output is lexed next
MinifyEnd ==
  /\ pc = "minifying"
  /\ tokIdx > Len(lx.tokens)
  /\ minified' = Some(MinifyOutput(mn))
  /\ pc' = "new"
  /\ stage' = "fmt"
  /\ UNCHANGED <<source, lx, tokIdx, fm, mn, result, formatted, reformatted,
                 reparsedF, reparsedM, xml, validation,
                 hook>>

\* transpileToMusicXML(ast) on the source's AST, as parsed or with a time
\* signature in its metadata
Transpile ==
  /\ pc = "transpile"
  /\ \E t \in TimeInputs :
       xml' = Some([time |-> t, lines |-> transpileToMusicXML(ScoreInput(t))])
  /\ pc' = "validate"
  /\ UNCHANGED <<source, stage, lx, tokIdx, fm, mn, result, formatted, minified,
                 reformatted, reparsedF, reparsedM, validation,
                 hook>>

\* validateScore(ast) on the source's AST, as parsed or with a time signature
\* in its metadata
Validate ==
  /\ pc = "validate"
  /\ \E t \in TimeInputs :
       validation' = Some([time |-> t, result |-> validate(ScoreInput(t))])
  /\ pc' = "done"
  /\ UNCHANGED <<source, stage, lx, tokIdx, fm, mn, result, formatted, minified,
                 reformatted, reparsedF, reparsedM, xml,
                 hook>>

Next ==
  \/ NewLexer
  \/ ScanStep
  \/ EndTokenize
  \/ Parse
  \/ FormatBegin
  \/ FormatStep
  \/ FormatEnd
  \/ MinifyBegin
  \/ MinifyStep
  \/ MinifyEnd
  \/ Transpile
  \/ Validate

Spec == Init /\ [][Next]_vars

\* ScoreLexer.tokenize on its own, on the source text
TokenizeNext == NewLexer \/ ScanStep \/ EndTokenize

\* tokenize is a loop that runs to its end: a scan step that can be taken is
\* taken, and so is the step that appends EOF.
LexSpec == Init /\ [][TokenizeNext]_vars /\ WF_vars(ScanStep) /\ WF_vars(EndTokenize)

(***************************************************************************)
(* ScoreParser on token streams.  The parser decodes the key, the time     *)
(* signature and the stave declarations of a context block from its        *)
(* YAML_CONTENT token (parseContextContent), the token kind the lexer is   *)
(* specified to emit for the lines of a context block; ScoreLexer above    *)
(* emits CONTEXT_KEY / CONTEXT_VALUE instead, so no source text reaches    *)
(* this part of the parser.  The streams below carry YAML_CONTENT tokens   *)
(* around stave bodies of notes.                                           *)
(***************************************************************************)
TokenOf(type, value) == Tok(type, value, 1, 1, 0, 0)

KeyLine(k) == <<"k", "e", "y", ":", " ">> \o k

TimeLine(beats) == <<"t", "i", "m", "e", ":", " ">> \o IntToChars(beats) \o <<"/", "4">>

DeclLine(name) == <<"&">> \o name \o <<":", " ", "t", "r", "e", "b", "l", "e">>

\* --- <lines> --- : a context block around one YAML_CONTENT token
ContextTokens(lines) ==
  << TokenOf("CONTEXT_DELIM", <<"-", "-", "-">>), TokenOf("NEWLINE", <<"\n">>),
     TokenOf("YAML_CONTENT", Join(lines, <<"\n">>)),
     TokenOf("CONTEXT_DELIM", <<"-", "-", "-">>), TokenOf("NEWLINE", <<"\n">>) >>

\* The i-th note of a body, named after its position, with its duration
NoteTokens(i, dur) ==
  << TokenOf("WHITESPACE", <<" ">>), TokenOf("NOTE", NoteNames(i)[i]) >>
    \o (IF dur = <<>> THEN <<>> ELSE <<TokenOf("DURATION", dur)>>)

\* &name { C<dur1> D<dur2> ... }
BodyTokens(name, durs) ==
  << TokenOf("STAVE_DECL", <<"&">> \o name), TokenOf("WHITESPACE", <<" ">>),
     TokenOf("STAVE_BODY_START", <<"{">>) >>
    \o Concat([i \in 1..Len(durs) |-> NoteTokens(i, durs[i])])
    \o << TokenOf("WHITESPACE", <<" ">>), TokenOf("STAVE_BODY_END", <<"}">>),
          TokenOf("NEWLINE", <<"\n">>) >>

\* /8 /4 /2 /2. /1
NoteDurations ==
  {<<"/", "8">>, <<"/", "4">>, <<"/", "2">>, <<"/", "2", ".">>, <<"/", "1">>}

\* One body of up to MaxElems notes of any of the durations, in 4/4 (no
\* context block), 3/4 or 2/4
SplitStreams ==
  {h \o BodyTokens(<<"a">>, durs) :
     h \in {<<>>, ContextTokens(<<DeclLine(<<"a">>), TimeLine(3)>>),
            ContextTokens(<<DeclLine(<<"a">>), TimeLine(2)>>)},
     durs \in SeqsUpTo(NoteDurations, MaxElems)}

\* The context blocks of the streams with a key or time change: no block, or
\* a leading block that may declare staff a and set the key G and the time
\* 3/4; no block, or a mid-score block that may set a key and a time
LeadingBlocks ==
  {<<>>} \cup
  {ContextTokens(d \o k \o t) :
     d \in {<<>>, <<DeclLine(<<"a">>)>>},
     k \in {<<>>, <<KeyLine(<<"G">>)>>},
     t \in {<<>>, <<TimeLine(3)>>}}

MidBlocks ==
  {<<>>} \cup
  {ContextTokens(k \o t) :
     k \in {<<>>, <<KeyLine(<<"G">>)>>, <<KeyLine(<<"C">>)>>},
     t \in {<<>>, <<TimeLine(3)>>, <<TimeLine(4)>>}}

\* no note; C; C D E; C/2 D; C D E F (quarters unless marked)
ChangeBodies ==
  {<<>>, <<<<>>>>, <<<<>>, <<>>, <<>>>>, <<<<"/", "2">>, <<>>>>,
   <<<<>>, <<>>, <<>>, <<>>>>}

\* leading block, a body of staff a, mid-score block, a body of staff a or
\* b, and possibly one more body of staff a
ChangeStreams ==
  {l \o BodyTokens(<<"a">>, b1) \o m \o BodyTokens(n, b2) \o b3 :
     l \in LeadingBlocks,
     b1 \in {<<>>, <<<<>>>>, <<<<>>, <<>>, <<>>, <<>>>>},
     m \in MidBlocks,
     n \in {<<"a">>, <<"b">>},
     b2 \in ChangeBodies,
     b3 \in {<<>>, BodyTokens(<<"a">>, <<<<>>>>)}}

TokenStreams ==
  {ts \o <<TokenOf("EOF", <<>>)>> : ts \in SplitStreams \cup ChangeStreams}

\* new ScoreParser(tokens, []) on one of the streams
ParserInputs ==
  /\ source = <<>>
  /\ stage = "src"
  /\ pc = "parse"
  /\ lx \in {[LexerInit EXCEPT !.tokens = ts] : ts \in TokenStreams}
  /\ tokIdx = 1
  /\ fm = FormatInit
  /\ mn = MinifyInit
  /\ result = None
  /\ formatted = None
  /\ minified = None
  /\ reformatted = None
  /\ reparsedF = None
  /\ reparsedM = None
  /\ xml = None
  /\ validation = None
  /\ hook = useScore

\* ScoreParser.parse on its own, on a token stream
ParserSpec == ParserInputs /\ [][Parse]_vars

(***************************************************************************)
(* The operations of the useScore hook.  Each setState updater runs        *)
(* atomically on the state the previous one left.                          *)
(***************************************************************************)
\* newHistory of setSource and of the debounced push: the history up to
\* historyIndex with the source appended, the oldest entry dropped when it
\* is longer than MAX_HISTORY
PushHistory(h, s) ==
  LET newHistory == Append(SubSeq(h.history, 1, h.historyIndex + 1), s)
  IN  IF Len(newHistory) > MAX_HISTORY THEN Tail(newHistory) ELSE newHistory

\* The variables of the pipeline, which the hook's operations leave alone
pipeline == <<source, stage, pc, lx, tokIdx, fm, mn, result, formatted, minified,
              reformatted, reparsedF, reparsedM, xml, validation>>

\* setSource(source); a pending history push stays pending
setSource ==
  /\ Len(hook.history) < MaxHistoryLen \/ hook.historyIndex + 1 < Len(hook.history)
  /\ \E s \in HookSources :
       hook' = [hook EXCEPT !.source = s, !.ast = parseAndCache(s), !.isDirty = TRUE,
                            !.history = PushHistory(hook, s),
                            !.historyIndex = Len(PushHistory(hook, s)) - 1]
  /\ UNCHANGED pipeline

\* updateSource(source): the state is updated at once, the pending push is
\* cleared and a new one started
updateSource ==
  /\ \E s \in HookSources :
       hook' = [hook EXCEPT !.source = s, !.ast = parseAndCache(s), !.isDirty = TRUE,
                            !.pending = Some(s)]
  /\ UNCHANGED pipeline

\* The timer callback of updateSource, 500 ms after the call
historyPush ==
  /\ hook.pending # None
  /\ Len(hook.history) < MaxHistoryLen \/ hook.historyIndex + 1 < Len(hook.history)
  /\ hook' =
       IF hook.history[hook.historyIndex + 1] = hook.pending[1]
       THEN [hook EXCEPT !.pending = None]
       ELSE [hook EXCEPT !.history = PushHistory(hook, hook.pending[1]),
                         !.historyIndex = Len(PushHistory(hook, hook.pending[1])) - 1,
                         !.pending = None]
  /\ UNCHANGED pipeline

\* newScore()
newScore ==
  /\ hook' = [useScore EXCEPT !.pending = hook.pending]
  /\ UNCHANGED pipeline

\* undo()
undo ==
  /\ hook.historyIndex > 0
  /\ hook' = [hook EXCEPT !.source = hook.history[hook.historyIndex],
                          !.ast = parseAndCache(hook.history[hook.historyIndex]),
                          !.historyIndex = hook.historyIndex - 1,
                          !.isDirty = TRUE]
  /\ UNCHANGED pipeline

\* redo()
redo ==
  /\ hook.historyIndex < Len(hook.history) - 1
  /\ hook' = [hook EXCEPT !.source = hook.history[hook.historyIndex + 2],
                          !.ast = parseAndCache(hook.history[hook.historyIndex + 2]),
                          !.historyIndex = hook.historyIndex + 1,
                          !.isDirty = TRUE]
  /\ UNCHANGED pipeline

\* markClean()
markClean ==
  /\ hook.isDirty
  /\ hook' = [hook EXCEPT !.isDirty = FALSE]
  /\ UNCHANGED pipeline

HookNext ==
  \/ setSource
  \/ updateSource
  \/ historyPush
  \/ newScore
  \/ undo
  \/ redo
  \/ markClean

\* The hook on its own, from its initial state, the pipeline at rest
HookInit ==
  /\ source = DEFAULT_SCORE_TEMPLATE
  /\ stage = "src"
  /\ pc = "new"
  /\ lx = LexerInit
  /\ tokIdx = 1
  /\ fm = FormatInit
  /\ mn = MinifyInit
  /\ result = None
  /\ formatted = None
  /\ minified = None
  /\ reformatted = None
  /\ reparsedF = None
  /\ reparsedM = None
  /\ xml = None
  /\ validation = None
  /\ hook = useScore

HookSpec == HookInit /\ [][HookNext]_vars

TypeOK ==
  /\ stage \in {"src", "fmt", "min"}
  /\ pc \in {"new", "lex", "parse", "format", "formatting", "minify", "minifying",
            "transpile", "validate", "done"}
  /\ lx.pos <= Len(Text) \/ pc = "new"

(***************************************************************************)
(* Properties.                                                             *)
(***************************************************************************)
\* The tokens of the source are in lx from the end of its tokenization until
\* the lexer is created anew for the formatter's output.
SourceParsed == stage = "src" /\ result # None

SourceAst == result[1].ast[1]

\* The elements of an AST, over all staves and measures
ElementsOf(ast) ==
  UNION {UNION {{ast.staves[s].measures[m].elements[e] :
                   e \in 1..Len(ast.staves[s].measures[m].elements)} :
                m \in 1..Len(ast.staves[s].measures)} :
         s \in 1..Len(ast.staves)}

RECURSIVE SumBeats(_, _)
SumBeats(elements, n) ==
  IF n = 0 THEN 0 ELSE getDurationBeats(elements[n].duration) + SumBeats(elements, n - 1)

\* Total beats of a measure, in 1/BeatScale beats
MeasureBeats(m) == SumBeats(m.elements, Len(m.elements))

\* The measures of every staff, each with the beats-per-measure it was split with
SplitMeasures(r) ==
  UNION {{[measure |-> r.staffMeasures[s].measures[i],
           limit |-> r.staffMeasures[s].limits[i]] :
            i \in 1..Len(r.staffMeasures[s].measures)} :
         s \in 1..Len(r.staffMeasures)}

\* C1 as stated: every measure of every staff of the parsed source totals at
\* most the beats of the time signature its body was partitioned with.
C1_EveryMeasureWithinBar ==
  result # None =>
    \A x \in SplitMeasures(result[1]) : MeasureBeats(x.measure) <= x.limit * BeatScale

\* C1 as amended: every measure totals at most the beats of the time
\* signature its body was partitioned with, unless the measure consists of
\* one single element (an element longer than a bar gets a measure of its own).
C1_MeasureWithinBarOrSingle ==
  result # None =>
    \A x \in SplitMeasures(result[1]) :
      \/ MeasureBeats(x.measure) <= x.limit * BeatScale
      \/ Len(x.measure.elements) = 1

\* A source was split into a full measure of several elements and a measure
\* that holds one over-long element.
C1_Witness ==
  /\ result # None
  /\ \E x \in SplitMeasures(result[1]) :
       Len(x.measure.elements) >= 2 /\ MeasureBeats(x.measure) = x.limit * BeatScale
  /\ \E x \in SplitMeasures(result[1]) :
       Len(x.measure.elements) = 1 /\ MeasureBeats(x.measure) > x.limit * BeatScale

\* A token lies inside a context block when an odd number of --- precede it
InContextBlock(toks, i) ==
  Cardinality({j \in 1..(i - 1) : toks[j].type = "CONTEXT_DELIM"}) % 2 = 1

StaveName(tok) == Tail(tok.value)

DeclaredAt(toks) ==
  {i \in 1..Len(toks) : toks[i].type = "STAVE_DECL" /\ InContextBlock(toks, i)}

UsedAt(toks) ==
  {i \in 1..Len(toks) : toks[i].type = "STAVE_DECL" /\ ~InContextBlock(toks, i)}

\* The first occurrence of each name among the tokens at the indices S
FirstOf(toks, S) ==
  {i \in S : \A j \in S : j < i => StaveName(toks[j]) # StaveName(toks[i])}

\* The indices of S in increasing order
Ordered(S) ==
  [n \in 1..Cardinality(S) |-> CHOOSE i \in S : Cardinality({j \in S : j < i}) = n - 1]

NamesAt(toks, S) == [n \in 1..Cardinality(S) |-> StaveName(toks[Ordered(S)[n]])]

\* Declared staves in declaration order, then the staves used without a
\* declaration in order of first use
ExpectedStaves(toks) ==
  LET declared == FirstOf(toks, DeclaredAt(toks))
      names    == {StaveName(toks[i]) : i \in declared}
      used     == FirstOf(toks, {i \in UsedAt(toks) : StaveName(toks[i]) \notin names})
  IN  NamesAt(toks, declared) \o NamesAt(toks, used)

\* C2: the staves of the AST are the declared staves in declaration order
\* followed by the undeclared staves that are used, in order of first use.
C2_StavesInDeclarationThenUseOrder ==
  (SourceParsed /\ result[1].ast # None /\ ExpectedStaves(lx.tokens) # <<>>) =>
    [i \in 1..Len(SourceAst.staves) |-> SourceAst.staves[i].name]
      = ExpectedStaves(lx.tokens)

\* The index of the brace that opens the group the token at i lies in (0: none)
OpenBraceOf(toks, i) ==
  LET opens == {b \in 1..(i - 1) :
                  /\ toks[b].value = <<"{">>
                  /\ \A j \in b..(i - 1) : toks[j].value # <<"}">>}
  IN  IF opens = {} THEN 0 ELSE CHOOSE b \in opens : \A c \in opens : c <= b

\* The index of the &name the brace at b follows (0: none)
StaveDeclOf(toks, b) ==
  IF b > 1 /\ toks[b - 1].type = "STAVE_DECL" THEN b - 1
  ELSE IF b > 2 /\ toks[b - 1].type = "WHITESPACE" /\ toks[b - 2].type = "STAVE_DECL"
       THEN b - 2
  ELSE 0

\* The free-standing NOTE tokens (whitespace on both sides) of stave bodies
BodyNotes(toks) ==
  {i \in 2..(Len(toks) - 1) :
     /\ toks[i].type = "NOTE"
     /\ toks[i - 1].type = "WHITESPACE" /\ toks[i + 1].type = "WHITESPACE"
     /\ ~InContextBlock(toks, i)
     /\ OpenBraceOf(toks, i) # 0
     /\ StaveDeclOf(toks, OpenBraceOf(toks, i)) # 0}

\* C3: every note written in the body of &name is an element of a measure of
\* staff name, wherever the body stands in the source.
C3_EveryBodyReachesItsStaff ==
  (SourceParsed /\ result[1].ast # None) =>
    \A i \in BodyNotes(lx.tokens) :
      \E s \in 1..Len(SourceAst.staves) :
        /\ SourceAst.staves[s].name =
             StaveName(lx.tokens[StaveDeclOf(lx.tokens, OpenBraceOf(lx.tokens, i))])
        /\ \E m \in 1..Len(SourceAst.staves[s].measures) :
             \E e \in 1..Len(SourceAst.staves[s].measures[m].elements) :
               LET el == SourceAst.staves[s].measures[m].elements[e]
               IN  el.kind = "Note" /\ el.pitch.note = Head(lx.tokens[i].value)

\* The index of the --- that closes the leading context block (0: no such block)
LeadingBlockEnd(toks) ==
  LET delims == {i \in 2..Len(toks) : toks[i].type = "CONTEXT_DELIM"}
  IN  IF Len(toks) = 0 \/ toks[1].type # "CONTEXT_DELIM" \/ delims = {} THEN 0
      ELSE CHOOSE i \in delims : \A j \in delims : i <= j

\* The indices of the CONTEXT_KEY tokens `key` of the leading block that are
\* followed by their CONTEXT_VALUE
LeadingKeys(toks, key) ==
  {i \in 2..(LeadingBlockEnd(toks) - 2) :
     /\ toks[i].type = "CONTEXT_KEY" /\ toks[i].value = key
     /\ toks[i + 1].type = "CONTEXT_VALUE"}

HasLeading(toks, key) == LeadingKeys(toks, key) # {}

\* The value the leading block gives to `key` (the last one wins)
LeadingValue(toks, key) ==
  toks[(CHOOSE i \in LeadingKeys(toks, key) :
          \A j \in LeadingKeys(toks, key) : j <= i) + 1].value

LeadingStaves(toks) ==
  FirstOf(toks, {i \in DeclaredAt(toks) : i < LeadingBlockEnd(toks)})

\* C4: title, key, time, tempo, octave and the declared staves of the leading
\* context block are carried by ast.metadata.
C4_LeadingBlockDecoded ==
  (SourceParsed /\ result[1].ast # None) =>
    LET toks == lx.tokens
        md   == SourceAst.metadata
    IN  /\ HasLeading(toks, <<"t", "i", "t", "l", "e">>) =>
             md.title = Some(LeadingValue(toks, <<"t", "i", "t", "l", "e">>))
        /\ HasLeading(toks, <<"k", "e", "y">>) =>
             md.key = Some(LeadingValue(toks, <<"k", "e", "y">>))
        /\ HasLeading(toks, <<"t", "i", "m", "e">>) =>
             md.time = TimeMatch(LeadingValue(toks, <<"t", "i", "m", "e">>), 0)
        /\ HasLeading(toks, <<"t", "e", "m", "p", "o">>) =>
             md.tempo = Some(ParseIntPrefix(LeadingValue(toks, <<"t", "e", "m", "p", "o">>)))
        /\ HasLeading(toks, <<"o", "c", "t", "a", "v", "e">>) =>
             md.defaultOctave =
               Some(ParseIntPrefix(LeadingValue(toks, <<"o", "c", "t", "a", "v", "e">>)))
        /\ LeadingStaves(toks) # {} =>
             /\ md.staves # None
             /\ [i \in 1..Len(md.staves[1]) |-> md.staves[1][i].name]
                  = NamesAt(toks, LeadingStaves(toks))

\* C5: formatting the formatter's output gives that output again.
C5_FormatIdempotent ==
  reformatted # None => reformatted[1] = formatted[1]

\* C6: the formatter's output parses to the AST of the source.
C6_FormatPreservesAst ==
  reparsedF # None => reparsedF[1].ast = result[1].ast

\* C7: the minifier's output parses to the AST of the source.
C7_MinifyPreservesAst ==
  reparsedM # None => reparsedM[1].ast = result[1].ast

\* C8: parse returns a result for every source; its ast is null only when the
\* catch clause ran, and then errors holds an entry at the line and column of
\* the token the parser stood on.
C8_FailureCaughtAndLocated ==
  SourceParsed =>
    /\ result[1].ast = None <=> result[1].thrown
    /\ result[1].thrown =>
         /\ result[1].pos < Len(lx.tokens)
         /\ \E i \in 1..Len(result[1].errors) :
              /\ result[1].errors[i].line = lx.tokens[result[1].pos + 1].line
              /\ result[1].errors[i].column = lx.tokens[result[1].pos + 1].column

\* An annotation call on position 0 made the parser fail inside the
\* annotation block: the result has no ast and carries the error.
C8_Witness ==
  /\ SourceParsed
  /\ result[1].ast = None
  /\ result[1].errors # <<>>
  /\ lx.tokens[result[1].pos + 1].column > 1

\* C9: every Note of the AST has an octave in 0..8.
C9_OctaveInRange ==
  (result # None /\ result[1].ast # None) =>
    \A el \in ElementsOf(SourceAst) : el.kind = "Note" => el.pitch.octave \in 0..8

\* C10: every Chord of the AST has at least one pitch.
C10_ChordNotEmpty ==
  (result # None /\ result[1].ast # None) =>
    \A el \in ElementsOf(SourceAst) : el.kind = "Chord" => Len(el.pitches) > 0

\* The elements of a staff in order, over its measures
RECURSIVE FlatElements(_, _)
FlatElements(measures, n) ==
  IF n = 0 THEN <<>> ELSE FlatElements(measures, n - 1) \o measures[n].elements

\* The elements of the first staff of the source's AST
FirstStaffElements ==
  FlatElements(SourceAst.staves[1].measures, Len(SourceAst.staves[1].measures))

\* The index of the NOTE the token at i is written after: only whitespace and
\* the note's own suffix tokens lie between them (0: none)
NoteBefore(toks, i) ==
  LET js == {j \in 1..(i - 1) :
               /\ toks[j].type = "NOTE"
               /\ \A k \in (j + 1)..(i - 1) :
                    toks[k].type \in {"WHITESPACE", "OCTAVE_MOD", "DURATION", "FINGERING"}}
  IN  IF js = {} THEN 0 ELSE CHOOSE j \in js : TRUE

\* The TIE tokens written after a note in a stave body
TiesAfterNote(toks) ==
  {i \in 1..Len(toks) :
     /\ toks[i].type = "TIE"
     /\ OpenBraceOf(toks, i) # 0
     /\ toks[OpenBraceOf(toks, i)].type = "STAVE_BODY_START"
     /\ NoteBefore(toks, i) # 0}

\* C11: a `^` written after a note in a stave body, tight or spaced, sets
\* tied on that note; where no function is called, no other element is tied.
C11_TieMarksPrecedingNote ==
  (SourceParsed /\ result[1].ast # None) =>
    LET toks == lx.tokens
    IN  /\ \A i \in TiesAfterNote(toks) :
             \E el \in ElementsOf(SourceAst) :
               /\ el.kind = "Note"
               /\ el.tied
               /\ el.pitch.note = Head(toks[NoteBefore(toks, i)].value)
        /\ (\A i \in 1..Len(toks) : toks[i].type # "FUNCTION") =>
             \A el \in ElementsOf(SourceAst) :
               el.tied =>
                 \E i \in TiesAfterNote(toks) :
                   el.pitch.note = Head(toks[NoteBefore(toks, i)].value)

\* C12: d(n1 ... nk) for every dynamic d and every k >= 1 yields the k notes
\* as the staff's elements, with dynamic d on n1 and no dynamic on the others.
C12_InlineDynamicOnFirstNote ==
  (SourceParsed /\ result[1].ast # None) =>
    \A d \in DYNAMICS, k \in 1..MaxElems :
      source = InlineCall(d, k) =>
        /\ Len(FirstStaffElements) = k
        /\ \A j \in 1..k :
             /\ FirstStaffElements[j].kind = "Note"
             /\ FirstStaffElements[j].pitch.note = NoteNames(k)[j][1]
             /\ AnnotationOf(FirstStaffElements[j]).dynamic = (IF j = 1 THEN d ELSE None)

\* The mark an annotation-block call of fn leaves on every element it targets
Marked(el, fn) ==
  IF fn \in DYNAMICS THEN AnnotationOf(el).dynamic = fn
  ELSE IF fn \in DOMAIN ARTICULATION_FN_MAP
  THEN AnnotationOf(el).articulations = <<ARTICULATION_FN_MAP[fn]>>
  ELSE IF fn = FN.finger THEN AnnotationOf(el).fingering = Some(3)
  ELSE el.tied

\* C13: fn(lo-hi) and fn(i) of an annotation block, fn a dynamic, an
\* articulation, finger or tie, mark the notes and chords at the positions
\* lo..hi of the body's element list and leave every other element as it was.
C13_AnnotationCallMarksRange ==
  (SourceParsed /\ result[1].ast # None) =>
    \A fn \in AnnotationFns \ {FN.cresc, FN.decresc, FN.slur},
       lo \in 1..MaxElems, hi \in {0} \cup 1..MaxElems,
       body \in {NoteNames(MaxElems), MixedNames(MaxElems)} :
      (source = AnnotationCall(fn, lo, hi, body) /\ (hi = 0 \/ lo <= hi)) =>
        /\ Len(FirstStaffElements) = MaxElems
        /\ \A j \in 1..MaxElems :
             LET el == FirstStaffElements[j]
             IN  IF lo <= j /\ j <= (IF hi = 0 THEN lo ELSE hi)
                 THEN el.kind \in {"Note", "Chord"} => Marked(el, fn)
                 ELSE el.annotation = None /\ ~el.tied

\* The start and the end mark of a hairpin or a slur
StartMark(el, fn) ==
  IF fn = FN.cresc THEN AnnotationOf(el).crescendo = "start"
  ELSE IF fn = FN.decresc THEN AnnotationOf(el).decrescendo = "start"
  ELSE AnnotationOf(el).slurStart

EndMark(el, fn) ==
  IF fn = FN.cresc THEN AnnotationOf(el).crescendo = "end"
  ELSE IF fn = FN.decresc THEN AnnotationOf(el).decrescendo = "end"
  ELSE AnnotationOf(el).slurEnd

\* C14: cresc(lo-hi), decresc(lo-hi) and slur(lo-hi) with 1 <= lo <= hi <= n
\* put the start mark on the element at lo and the end mark on the element
\* at hi.
C14_HairpinStartAndEnd ==
  (SourceParsed /\ result[1].ast # None) =>
    \A fn \in {FN.cresc, FN.decresc, FN.slur},
       lo \in 1..MaxElems, hi \in 1..MaxElems,
       body \in {NoteNames(MaxElems), MixedNames(MaxElems)} :
      (source = AnnotationCall(fn, lo, hi, body) /\ lo <= hi) =>
        /\ Len(FirstStaffElements) = MaxElems
        /\ FirstStaffElements[lo].kind \in {"Note", "Chord"} =>
             StartMark(FirstStaffElements[lo], fn)
        /\ FirstStaffElements[hi].kind \in {"Note", "Chord"} =>
             EndMark(FirstStaffElements[hi], fn)

\* The indices of the lines with the given tag
LinesOf(lines, tag) == {i \in 1..Len(lines) : lines[i][1] = tag}

\* The lines after the line at index i up to the next line with tag `close`
Inside(lines, i, close) ==
  SubSeq(lines, i + 1,
         (CHOOSE j \in LinesOf(lines, close) :
            j > i /\ \A k \in LinesOf(lines, close) : k > i => j <= k) - 1)

\* The lines of the <part> of the staff at index s
PartLines(lines, s) ==
  Inside(lines, CHOOSE i \in LinesOf(lines, "part") : lines[i][2] = s, "/part")

\* The values written on the lines with the given tag, in order
ValuesOf(lines, tag) ==
  [n \in 1..Cardinality(LinesOf(lines, tag)) |-> lines[Ordered(LinesOf(lines, tag))[n]][2]]

\* The lines of <measure number="n"> without its <attributes>
MeasureBody(part, n) ==
  LET m == Inside(part, CHOOSE i \in LinesOf(part, "measure") : part[i][2] = n, "/measure")
  IN  IF m # <<>> /\ m[1][1] = "attributes"
      THEN SubSeq(m, CHOOSE j \in LinesOf(m, "/attributes") : TRUE, Len(m))
      ELSE <<<<"/attributes">>>> \o m

\* The largest measure count over the staves
LargestMeasureCount(staves) ==
  CHOOSE m \in {0} \cup {Len(staves[i].measures) : i \in 1..Len(staves)} :
    \A i \in 1..Len(staves) : Len(staves[i].measures) <= m

\* The document has one root, one part per staff in staff order, in every
\* part the measures 1..count, and a single whole rest of 4 divisions per
\* beat of metadata.time (of 4/4 without one) where the staff has no measure
AlignedParts(lines, ast, count) ==
  /\ Cardinality(LinesOf(lines, "score-partwise")) = 1
  /\ ValuesOf(lines, "part") = [s \in 1..Len(ast.staves) |-> s]
  /\ ValuesOf(lines, "part-name") = [s \in 1..Len(ast.staves) |-> ast.staves[s].name]
  /\ \A s \in 1..Len(ast.staves) :
       /\ ValuesOf(PartLines(lines, s), "measure") = [n \in 1..count |-> n]
       /\ \A n \in (Len(ast.staves[s].measures) + 1)..count :
            MeasureBody(PartLines(lines, s), n) =
              <<<<"/attributes">>, <<"note">>, <<"rest/">>,
                <<"duration", 4 * (IF ast.metadata.time # None
                                   THEN ast.metadata.time[1].beats ELSE 4)>>,
                <<"type", "whole">>, <<"/note">>>>

\* C15 as stated: one root, one part per staff in staff order, and in every
\* part the measures 1..maxMeasures, maxMeasures being the largest measure
\* count over the staves; a staff without a measure at an index gets a
\* measure holding a single whole rest.
C15_PartsAlignedToLargestCount ==
  xml # None =>
    AlignedParts(xml[1].lines, ScoreInput(xml[1].time),
                 LargestMeasureCount(ScoreInput(xml[1].time).staves))

\* C15 as amended: the same with at least one measure per part: every part
\* has the measures 1..max(1, largest measure count over the staves).
C15_PartsAlignedToAtLeastOne ==
  xml # None =>
    AlignedParts(xml[1].lines, ScoreInput(xml[1].time),
                 Max(1, LargestMeasureCount(ScoreInput(xml[1].time).staves)))

\* A score of two staves of different lengths was transpiled with a time
\* signature in its metadata: the shorter part was padded.
C15_Witness ==
  /\ xml # None
  /\ xml[1].time # None
  /\ Len(ScoreInput(xml[1].time).staves) = 2
  /\ \E s \in 1..2 :
       /\ Len(ScoreInput(xml[1].time).staves[s].measures) = 1
       /\ Cardinality(LinesOf(PartLines(xml[1].lines, s), "measure")) = 2
       /\ Cardinality(LinesOf(PartLines(xml[1].lines, s), "rest/")) = 1

\* The lines that matter for beams: the start and the end of a measure, the
\* start of a note (of a rest and of a chord member as well) and its beam tag
BeamEvents(lines) ==
  SelectSeq(lines, LAMBDA l : l[1] \in {"measure", "/measure", "note", "beam"})

\* The event at j is a beam tag with one of the states
IsBeam(ev, j, states) ==
  j \in 1..Len(ev) /\ ev[j][1] = "beam" /\ ev[j][2] \in states

\* The beam tags of the lines are well formed: after a begin or a continue
\* the very next note of the measure carries a continue or an end, and before
\* a continue or an end the note before it carries a begin or a continue; so
\* no untagged note and no measure boundary lies inside a beam.
BeamsWellFormed(lines) ==
  LET ev == BeamEvents(lines)
  IN  \A j \in 1..Len(ev) :
        /\ IsBeam(ev, j, {"begin", "continue"}) =>
              /\ j + 2 <= Len(ev)
              /\ ev[j + 1][1] = "note"
              /\ IsBeam(ev, j + 2, {"continue", "end"})
        /\ IsBeam(ev, j, {"continue", "end"}) =>
              /\ j > 2
              /\ ev[j - 1][1] = "note"
              /\ IsBeam(ev, j - 2, {"begin", "continue"})
        /\ IsBeam(ev, j, {"begin", "continue", "end"}) => j > 1 /\ ev[j - 1][1] = "note"

\* C16: in every emitted measure the beam tags read begin, continue*, end on
\* each run of beamed notes, or the run carries none.
C16_BeamTagsWellFormed ==
  xml # None => BeamsWellFormed(xml[1].lines)

\* A document with a begin-continue-end beam, and one in which a beam group
\* was cut by the end of a measure: its first note alone carries no tag.
C16_Witness ==
  /\ xml # None
  /\ \/ ValuesOf(xml[1].lines, "beam") = <<"begin", "continue", "end">>
     \/ /\ ValuesOf(xml[1].lines, "beam") = <<"begin", "end">>
        /\ Cardinality({el \in ElementsOf(SourceAst) : el.beamed}) = 3
        /\ Len(SourceAst.staves[1].measures) = 2

\* The AST the validator was run on
Validated == ScoreInput(validation[1].time)

\* The diagnostics about the beat total of a measure
BeatDiagnostics ==
  SelectSeq(validation[1].result.diagnostics, LAMBDA d : d.message = "Measure has beats")

\* The measures of the AST, staff by staff
AllMeasures(ast) == Concat([s \in 1..Len(ast.staves) |-> ast.staves[s].measures])

\* C17 as stated: no diagnostic depends on the beat total of a measure.
C17_NoBeatDiagnostic ==
  validation # None => BeatDiagnostics = <<>>

\* C17 as amended: a diagnostic on the beat total is a warning and leaves
\* valid as it is; there is one for each measure whose durations sum to more
\* than metadata.time.beats, and none when the metadata has no time signature.
C17_BeatDiagnosticIsWarning ==
  validation # None =>
    /\ \A i \in 1..Len(BeatDiagnostics) : BeatDiagnostics[i].severity = "warning"
    /\ [i \in 1..Len(BeatDiagnostics) |-> BeatDiagnostics[i].value]
         = LET over == SelectSeq(AllMeasures(Validated),
                         LAMBDA m : /\ Validated.metadata.time # None
                                    /\ MeasureBeats(m) >
                                         Validated.metadata.time[1].beats * BeatScale)
           IN  [i \in 1..Len(over) |-> MeasureBeats(over[i])]
    /\ validation[1].result.valid
         = (\A i \in 1..Len(validation[1].result.diagnostics) :
              validation[1].result.diagnostics[i].severity # "error")

\* A score in 3/4 with a measure of exactly three beats and a measure of more
\* was validated: one warning, and the score is valid.
C17_Witness ==
  /\ validation # None
  /\ validation[1].time = Some([beats |-> 3, beatType |-> 4])
  /\ Len(BeatDiagnostics) = 1
  /\ \E m \in 1..Len(AllMeasures(Validated)) :
       MeasureBeats(AllMeasures(Validated)[m]) = 3 * BeatScale
  /\ validation[1].result.valid

\* An element that the validator is to reject: a pitch with an octave
\* outside 0..8, a fingering outside 1..5, a chord without pitches
Rejected(el) ==
  \/ el.kind = "Note" /\ el.pitch.octave \notin 0..8
  \/ el.kind = "Chord" /\ \E i \in 1..Len(el.pitches) : el.pitches[i].octave \notin 0..8
  \/ /\ el.kind \in {"Note", "Chord"}
     /\ el.annotation # None
     /\ el.annotation[1].fingering \notin {None, Some(NaN)}
     /\ el.annotation[1].fingering[1] \notin 1..5
  \/ el.kind = "Chord" /\ Len(el.pitches) = 0

\* C18: valid is false, with an error among the diagnostics, exactly when
\* the AST holds a rejected element.
C18_InvalidIffRejectedElement ==
  validation # None =>
    /\ ~validation[1].result.valid <=> \E el \in ElementsOf(Validated) : Rejected(el)
    /\ ~validation[1].result.valid <=>
         \E i \in 1..Len(validation[1].result.diagnostics) :
           validation[1].result.diagnostics[i].severity = "error"

\* tokenize has returned the token list of the stage's text
Tokenized == pc = "parse"

\* The tokens of the given type, as indices into the token list
TokensOf(type) == {i \in 1..Len(lx.tokens) : lx.tokens[i].type = type}

\* C19: tokenize terminates on every input: every scan step consumes at
\* least one character, stays within the text and appends a token; after an
\* UNKNOWN token the scan goes on; an unclosed /* is a COMMENT up to the end
\* of input; the returned token list ends with the only EOF token.
C19_TokenizeTerminates ==
  /\ [][ScanStep =>
          /\ lx'.pos > lx.pos
          /\ lx'.pos <= Len(Text)
          /\ Len(lx'.tokens) > Len(lx.tokens)
          /\ SubSeq(lx'.tokens, 1, Len(lx.tokens)) = lx.tokens
          /\ lx'.tokens[Len(lx.tokens) + 1].start = lx.pos
          /\ (lx'.tokens[Len(lx.tokens) + 1].type = "UNKNOWN" =>
                /\ pc' = "lex"
                /\ lx'.pos = lx.pos + Len(lx'.tokens[Len(lx.tokens) + 1].value))]_vars
  /\ [](pc \in {"lex", "parse"} =>
          \A i \in TokensOf("COMMENT") :
            LET v == lx.tokens[i].value
            IN  (v[1] = "/" /\ v[2] = "*") =>
                  \/ Len(v) >= 4 /\ v[Len(v) - 1] = "*" /\ v[Len(v)] = "/"
                  \/ lx.tokens[i].end = Len(Text))
  /\ [](Tokenized => /\ lx.pos = Len(Text)
                     /\ TokensOf("EOF") = {Len(lx.tokens)})
  /\ [](pc = "lex" => TokensOf("EOF") = {})
  /\ ((pc = "lex") ~> Tokenized)

\* The tokens of a source with an unknown character in the middle and an
\* unclosed block comment at the end have been returned.
C19_Witness ==
  /\ Tokenized
  /\ stage = "src"
  /\ \E i \in TokensOf("UNKNOWN") : i + 1 < Len(lx.tokens)
  /\ \E i \in TokensOf("COMMENT") :
       /\ lx.tokens[i].end = Len(Text)
       /\ lx.tokens[i].value[Len(lx.tokens[i].value)] # "/"

\* C20: the tokens are in source order and do not overlap.
C20_TokensInOrder ==
  \A i, j \in 1..Len(lx.tokens) :
    i < j => lx.tokens[i].end <= lx.tokens[j].start

\* A returned token list with the tokens of a context block and with a NOTE
\* followed by its OCTAVE_MOD, DURATION and FINGERING tokens.
C20_Witness ==
  /\ Tokenized
  /\ TokensOf("CONTEXT_KEY") # {} /\ TokensOf("CONTEXT_VALUE") # {}
  /\ \E i \in TokensOf("NOTE") :
       /\ i + 3 <= Len(lx.tokens)
       /\ lx.tokens[i + 1].type = "OCTAVE_MOD"
       /\ lx.tokens[i + 2].type = "DURATION"
       /\ lx.tokens[i + 3].type = "FINGERING"
       /\ lx.tokens[i + 3].start = lx.tokens[i + 2].end

(***************************************************************************)
(* Properties of the parser on token streams (ParserSpec).                 *)
(***************************************************************************)
\* The stream was parsed without a throw
StreamParsed == result # None /\ ~result[1].thrown

\* The stave bodies of a stream, each named by the index of its closing }
BodyEnds(toks) == {b \in 1..Len(toks) : toks[b].type = "STAVE_BODY_END"}

\* The name of the staff the body closed at b belongs to
BodyStaff(toks, b) ==
  Tail(toks[StaveDeclOf(toks, OpenBraceOf(toks, b))].value)

\* The NOTE tokens written in the body closed at b, in order
BodyNoteTokens(toks, b) ==
  SelectSeq(SubSeq(toks, OpenBraceOf(toks, b) + 1, b - 1), LAMBDA t : t.type = "NOTE")

\* The measures produced from the body closed at b, in order, each with the
\* beats-per-measure it was split with
BodyMeasures(r, toks, b) ==
  IF ~MapHas(r.staffMeasures, BodyStaff(toks, b)) THEN <<>>
  ELSE LET sm == MapGet(r.staffMeasures, BodyStaff(toks, b))
           lo == Cardinality({i \in 1..Len(sm.ends) : sm.ends[i] < b})
           n  == Cardinality({i \in 1..Len(sm.ends) : sm.ends[i] = b})
       IN  [i \in 1..n |-> [measure |-> sm.measures[lo + i], limit |-> sm.limits[lo + i]]]

\* The elements of the measures of a body, in order
BodyElements(ms) == Concat([i \in 1..Len(ms) |-> ms[i].measure.elements])

FirstBodyDecl(toks) ==
  LET ds == {i \in 1..Len(toks) : toks[i].type = "STAVE_DECL"}
  IN  IF ds = {} THEN Len(toks) + 1 ELSE CHOOSE i \in ds : \A j \in ds : i <= j

\* The context blocks of a stream, each named by the index of its
\* YAML_CONTENT token: those after the first stave body are mid-score
YamlAt(toks) == {i \in 1..Len(toks) : toks[i].type = "YAML_CONTENT"}

MidScoreAt(toks) == {i \in YamlAt(toks) : i > FirstBodyDecl(toks)}

\* The key and the time written in the context block at i
WrittenIn(toks, i) ==
  ApplyYamlEntries(load(toks[i].value), 1, ParserInit(<<>>), EmptyMetadata).metadata

\* The key and the time in force after the first i tokens: the last ones
\* written, C and 4/4 when none was
KeyAfter(toks, i) ==
  LET js == {j \in YamlAt(toks) : j <= i /\ WrittenIn(toks, j).key # None}
  IN  IF js = {} THEN <<"C">>
      ELSE WrittenIn(toks, CHOOSE j \in js : \A k \in js : k <= j).key[1]

TimeAfter(toks, i) ==
  LET js == {j \in YamlAt(toks) : j <= i /\ WrittenIn(toks, j).time # None}
  IN  IF js = {} THEN [beats |-> 4, beatType |-> 4]
      ELSE WrittenIn(toks, CHOOSE j \in js : \A k \in js : k <= j).time[1]

\* The fields the mid-score block at m changes
ChangedBy(toks, m) ==
  [key  |-> IF KeyAfter(toks, m) # KeyAfter(toks, m - 1)
            THEN Some(KeyAfter(toks, m)) ELSE None,
   time |-> IF TimeAfter(toks, m) # TimeAfter(toks, m - 1)
            THEN Some(TimeAfter(toks, m)) ELSE None]

\* The mid-score blocks that change the key or the time
ChangingAt(toks) ==
  {m \in MidScoreAt(toks) : ChangedBy(toks, m) # [key |-> None, time |-> None]}

\* The staff's first body with notes after the token at m (0: none)
NextBodyOf(toks, name, m) ==
  LET bs == {b \in BodyEnds(toks) :
               b > m /\ BodyStaff(toks, b) = name /\ BodyNoteTokens(toks, b) # <<>>}
  IN  IF bs = {} THEN 0 ELSE CHOOSE b \in bs : \A c \in bs : b <= c

\* The attributes of the measures of a staff that were produced after the
\* token at m, in order
AttributesAfter(r, name, m) ==
  IF ~MapHas(r.staffMeasures, name) THEN <<>>
  ELSE LET sm == MapGet(r.staffMeasures, name)
           lo == Cardinality({i \in 1..Len(sm.ends) : sm.ends[i] <= m})
       IN  [i \in 1..(Len(sm.ends) - lo) |-> sm.measures[lo + i].attributes]

DeclaredLeading(toks) ==
  UNION {{Tail(e.key) : e \in {x \in {load(toks[j].value)[k] :
                                       k \in 1..Len(load(toks[j].value))} :
                                 x.key # <<>> /\ Head(x.key) = "&"}} :
         j \in YamlAt(toks) \ MidScoreAt(toks)}

ConnectedBody(toks) ==
  /\ \A i \in 1..Len(toks) :
       toks[i].type \in {"STAVE_DECL", "WHITESPACE", "STAVE_BODY_START", "STAVE_BODY_END",
                         "NOTE", "REST", "DURATION", "SLUR", "TIE", "EOF"}
  /\ Cardinality({i \in 1..Len(toks) : toks[i].type = "STAVE_BODY_START"}) = 1
  /\ \E i \in 1..Len(toks) : toks[i].type \in {"SLUR", "TIE"}

\* The NOTE and REST tokens of a stream, in order
ElementTokens(toks) == SelectSeq(toks, LAMBDA t : t.type \in {"NOTE", "REST"})

\* C25: connectives remove no element.  Every NOTE and REST token of a body
\* whose elements are joined by ~ or ^, with or without whitespace, yields
\* exactly one element, in source order.
C25_ConnectivesKeepElements ==
  (SourceParsed /\ result[1].ast # None /\ ConnectedBody(lx.tokens)) =>
    LET written == ElementTokens(lx.tokens)
    IN  /\ Len(FirstStaffElements) = Len(written)
        /\ \A k \in 1..Len(written) :
             IF written[k].type = "REST" THEN FirstStaffElements[k].kind = "Rest"
             ELSE /\ FirstStaffElements[k].kind = "Note"
                  /\ FirstStaffElements[k].pitch.note = written[k].value[1]

\* The source is one stave body of notes and chords with an inline call
\* fn( ... ) and no other kind of token
InlineCallBody(toks) ==
  /\ \A i \in 1..Len(toks) :
       toks[i].type \in {"STAVE_DECL", "WHITESPACE", "STAVE_BODY_START", "STAVE_BODY_END",
                         "NOTE", "CHORD_START", "CHORD_END", "FUNCTION", "PAREN_OPEN",
                         "PAREN_CLOSE", "EOF"}
  /\ Cardinality({i \in 1..Len(toks) : toks[i].type = "STAVE_BODY_START"}) = 1
  /\ Cardinality({i \in 1..Len(toks) : toks[i].type = "PAREN_CLOSE"}) = 1
  /\ \E i \in 1..(Len(toks) - 1) :
       toks[i].type = "FUNCTION" /\ toks[i + 1].type = "PAREN_OPEN"

\* The token at i lies between a [ and its ]
InChord(toks, i) ==
  \E c \in 1..(i - 1) :
    /\ toks[c].type = "CHORD_START"
    /\ \A j \in c..i : toks[j].type # "CHORD_END"

\* The tokens that start a written element: a [ or a NOTE outside a chord
WrittenAt(toks) ==
  {i \in 1..Len(toks) :
     \/ toks[i].type = "CHORD_START"
     \/ toks[i].type = "NOTE" /\ ~InChord(toks, i)}

\* The k-th of them, in source order
WrittenElement(toks, k) ==
  toks[CHOOSE i \in WrittenAt(toks) :
         Cardinality({j \in WrittenAt(toks) : j < i}) = k - 1]

\* C26: the notes and chords written in a body with an inline function call,
\* inside and around the call, are the elements of the staff: each exactly
\* once, in source order.
C26_InlineCallKeepsElements ==
  (SourceParsed /\ result[1].ast # None /\ InlineCallBody(lx.tokens)) =>
    /\ Len(FirstStaffElements) = Cardinality(WrittenAt(lx.tokens))
    /\ \A k \in 1..Len(FirstStaffElements) :
         IF WrittenElement(lx.tokens, k).type = "CHORD_START"
         THEN FirstStaffElements[k].kind = "Chord"
         ELSE /\ FirstStaffElements[k].kind = "Note"
              /\ FirstStaffElements[k].pitch.note = WrittenElement(lx.tokens, k).value[1]

\* The tokens that start a written element: a [, a rest, or a NOTE outside
\* a chord
ElementStarts(toks) ==
  WrittenAt(toks) \cup {i \in 1..Len(toks) : toks[i].type = "REST"}

\* The index of the k-th of them, in source order
ElementStart(toks, k) ==
  CHOOSE i \in ElementStarts(toks) :
    Cardinality({j \in ElementStarts(toks) : j < i}) = k - 1

\* The index of the DURATION token the element that starts at i is written
\* with (0: none): after the note and its octave modifier, after the rest,
\* after the ] of the chord
DurationOf(toks, i) ==
  LET last == IF toks[i].type # "CHORD_START" THEN i
              ELSE IF \E c \in i..Len(toks) : toks[c].type = "CHORD_END"
                   THEN CHOOSE c \in i..Len(toks) :
                          /\ toks[c].type = "CHORD_END"
                          /\ \A j \in i..(c - 1) : toks[j].type # "CHORD_END"
                   ELSE Len(toks)
      d    == IF last < Len(toks) /\ toks[last + 1].type = "OCTAVE_MOD"
              THEN last + 2 ELSE last + 1
  IN  IF d <= Len(toks) /\ toks[d].type = "DURATION" THEN d ELSE 0

\* The duration a DURATION token spells: /N with its dots
SpelledDuration(v) ==
  LET dots == Cardinality({i \in 1..Len(v) : v[i] = "."})
      n    == SubSeq(v, 2, Len(v) - dots)
  IN  [base |-> IF n = <<"1">> THEN "w" ELSE IF n = <<"2">> THEN "h"
                ELSE IF n = <<"4">> THEN "q" ELSE IF n = <<"8">> THEN "8"
                ELSE IF n = <<"1", "6">> THEN "16" ELSE "32",
       dots |-> dots]

\* The duration the k-th written element is to have: the one it is written
\* with, else the most recent one written before it, else a plain quarter
StickyDuration(toks, k) ==
  LET ds == {j \in 1..k : DurationOf(toks, ElementStart(toks, j)) # 0}
  IN  IF ds = {} THEN [base |-> "q", dots |-> 0]
      ELSE SpelledDuration(
             toks[DurationOf(toks, ElementStart(toks,
                    CHOOSE j \in ds : \A i \in ds : i <= j))].value)

\* The written elements of the source are the elements of its one staff
ElementsAsWritten(toks) ==
  /\ result[1].ast # None
  /\ Len(SourceAst.staves) = 1
  /\ Len(FirstStaffElements) = Cardinality(ElementStarts(toks))
  /\ \A k \in 1..Len(FirstStaffElements) :
       FirstStaffElements[k].kind =
         (IF toks[ElementStart(toks, k)].type = "NOTE" THEN "Note"
          ELSE IF toks[ElementStart(toks, k)].type = "REST" THEN "Rest" ELSE "Chord")

OpenBraces(toks) ==
  {i \in 1..Len(toks) : toks[i].type \in {"STAVE_BODY_START", "ANNOTATION_BLOCK_START"}}

CloseBraces(toks) ==
  {i \in 1..Len(toks) : toks[i].type \in {"STAVE_BODY_END", "ANNOTATION_BLOCK_END"}}

\* The } that matches the { at i: the first one after it with as many { as }
\* between them (0: none)
MatchingBrace(toks, i) ==
  LET ks == {k \in CloseBraces(toks) :
               /\ k > i
               /\ Cardinality({j \in OpenBraces(toks) : i < j /\ j < k})
                    = Cardinality({j \in CloseBraces(toks) : i < j /\ j < k})}
  IN  IF ks = {} THEN 0 ELSE CHOOSE k \in ks : \A l \in ks : k <= l

\* A STAVE_BODY_END lies before the { at i with no other { between them
AfterBodyEnd(toks, i) ==
  \E j \in 1..(i - 1) :
    /\ toks[j].type = "STAVE_BODY_END"
    /\ \A k \in (j + 1)..(i - 1) : k \notin OpenBraces(toks)

\* C28 as stated: the next { after a STAVE_BODY_END is ANNOTATION_BLOCK_START
\* whatever lies between them and its matching } is ANNOTATION_BLOCK_END;
\* every other { is STAVE_BODY_START and its matching } is STAVE_BODY_END.
C28_BraceAfterBodyIsAnnotation ==
  Tokenized =>
    \A i \in OpenBraces(lx.tokens) :
      /\ lx.tokens[i].type = (IF AfterBodyEnd(lx.tokens, i)
                              THEN "ANNOTATION_BLOCK_START" ELSE "STAVE_BODY_START")
      /\ MatchingBrace(lx.tokens, i) # 0 =>
           lx.tokens[MatchingBrace(lx.tokens, i)].type =
             (IF lx.tokens[i].type = "ANNOTATION_BLOCK_START"
              THEN "ANNOTATION_BLOCK_END" ELSE "STAVE_BODY_END")

\* The tokens of characters the lexer does not know: UNKNOWN outside context
\* blocks, other than a word that is not a function name
UnknownChars(toks) ==
  {i \in 1..Len(toks) :
     /\ toks[i].type = "UNKNOWN"
     /\ ~InContextBlock(toks, i)
     /\ toks[i].value[1] \notin LowerCase}

\* A STAVE_BODY_END lies before the { at i with no other { and no unknown
\* character between them
ExpectedAfterBodyEnd(toks, i) ==
  \E j \in 1..(i - 1) :
    /\ toks[j].type = "STAVE_BODY_END"
    /\ \A k \in (j + 1)..(i - 1) :
         k \notin OpenBraces(toks) /\ k \notin UnknownChars(toks)

\* An annotation block is open before the } at k: an ANNOTATION_BLOCK_START
\* with no ANNOTATION_BLOCK_END after it
InAnnotationBlock(toks, k) ==
  \E j \in 1..(k - 1) :
    /\ toks[j].type = "ANNOTATION_BLOCK_START"
    /\ \A l \in (j + 1)..(k - 1) : toks[l].type # "ANNOTATION_BLOCK_END"

\* The stave bodies open before the token at k
StaveDepth(toks, k) ==
  Cardinality({j \in 1..(k - 1) : toks[j].type = "STAVE_BODY_START"})
    - Cardinality({j \in 1..(k - 1) : toks[j].type = "STAVE_BODY_END"})

\* C28 as amended: the next { after a STAVE_BODY_END is
\* ANNOTATION_BLOCK_START unless an unknown character lies between them, and
\* every other { is STAVE_BODY_START; a } is ANNOTATION_BLOCK_END when it is the
\* first } after an ANNOTATION_BLOCK_START or when no stave body is open, and
\* STAVE_BODY_END otherwise.
C28_BraceAfterBodyUnlessUnknown ==
  Tokenized =>
    /\ \A i \in OpenBraces(lx.tokens) :
         lx.tokens[i].type = (IF ExpectedAfterBodyEnd(lx.tokens, i)
                              THEN "ANNOTATION_BLOCK_START" ELSE "STAVE_BODY_START")
    /\ \A k \in CloseBraces(lx.tokens) :
         lx.tokens[k].type =
           (IF InAnnotationBlock(lx.tokens, k) \/ StaveDepth(lx.tokens, k) = 0
            THEN "ANNOTATION_BLOCK_END" ELSE "STAVE_BODY_END")

\* A { after a stave body and an unknown character was lexed as
\* STAVE_BODY_START.
C28_Witness ==
  /\ Tokenized
  /\ \E i \in OpenBraces(lx.tokens) :
       /\ AfterBodyEnd(lx.tokens, i)
       /\ ~ExpectedAfterBodyEnd(lx.tokens, i)
       /\ lx.tokens[i].type = "STAVE_BODY_START"
       /\ MatchingBrace(lx.tokens, i) # 0

(***************************************************************************)
(* Properties of the durations written to MusicXML.                        *)
(***************************************************************************)
\* The <duration> values of the document, in order
WrittenDurations(lines) ==
  LET ds == SelectSeq(lines, LAMBDA l : l[1] = "duration")
  IN  [k \in 1..Len(ds) |-> ds[k][2]]

\* The beats, in 1/BeatScale beats, of the <duration> lines the elements of
\* a staff are written with: one per note and rest, one per pitch of a chord
WrittenBeats(elements) ==
  Concat([k \in 1..Len(elements) |->
            IF elements[k].kind = "Chord"
            THEN [i \in 1..Len(elements[k].pitches) |->
                    getDurationBeats(elements[k].duration)]
            ELSE <<getDurationBeats(elements[k].duration)>>])

\* C29: with divisions = 4 every <duration> is exactly four times the beats
\* of its element (checked on the documents of one staff with at least one
\* measure, which have no padding rests).
C29_DurationIsFourTimesBeats ==
  (xml # None /\ Len(SourceAst.staves) = 1 /\ Len(SourceAst.staves[1].measures) > 0) =>
    LET written == WrittenDurations(xml[1].lines)
        beats   == WrittenBeats(FirstStaffElements)
    IN  /\ Len(written) = Len(beats)
        /\ \A k \in 1..Len(written) : written[k] * BeatScale = 4 * beats[k]

(***************************************************************************)
(* Properties of the useScore hook (HookSpec).                             *)
(***************************************************************************)
\* C30: whenever no debounced history push is pending, the current source
\* is the history entry at historyIndex.
C30_SourceIsHistoryEntry ==
  hook.pending = None => hook.source = hook.history[hook.historyIndex + 1]

====
